---- MODULE Spec2Model ----
(***************************************************************************)
(* State-machine model of the mica_eur program: the KYC oracle, the AML    *)
(* authority / blacklist subsystem and the compliance-gated token          *)
(* lifecycle.  Every instruction is one action made of the Anchor account  *)
(* validation of its context struct (programs/mica_eur/src/lib.rs and      *)
(* kyc_oracle.rs) followed by the handler body.  A failing instruction     *)
(* reverts (the host transaction is atomic) and only records its error in  *)
(* `last`.                                                                 *)
(***************************************************************************)
EXTENDS Integers, Sequences, FiniteSets, TLC

VARIABLES
    now,                \* Clock::get()?.unix_timestamp
    kyc_oracle_state,   \* KycOracleState accounts, keyed by PDA seed
    kyc_users,          \* KycUser accounts, keyed by the user key (PDA seed)
    mint_info,          \* MintInfo accounts, keyed by the mint key (PDA seed)
    balance,            \* external ledger: token account -> amount
    frozen,             \* external ledger: token account -> frozen flag
    aml_authorities,    \* AmlAuthority accounts, keyed by the authority key
    blacklist_entries,  \* BlacklistEntry accounts, keyed by the user key
    last                \* the last instruction submitted and its result

vars == <<now, kyc_oracle_state, kyc_users, mint_info, balance, frozen,
          aml_authorities, blacklist_entries, last>>

kycVars == <<kyc_oracle_state, kyc_users>>
tokenVars == <<mint_info, balance, frozen>>
amlVars == <<aml_authorities, blacklist_entries>>

----------------------------------------------------------------------------
(* Bounds of the model and the keys that act in it. *)

\* Seconds the clock may advance in single steps around each reference point.
MaxSecs == 2
\* The expiry_days value the authority passes when it verifies a user.
ExpiryDays == 365
\* Largest total amount the ledger holds in the model.
MaxSupply == 1
\* Most leaves of a reserve tree, and most entries of a proof or of a
\* side-indicator sequence handed to the verification as they come.
MaxMerkleLeaves == 5
MaxProofLen == 2
\* Bytes in which now + expiry_days * 86400 is computed without wrapping.
ExactBytes == 12

\* Signers / public keys.
Keys == {"issuer", "freezer", "delegate", "alice", "bob"}
\* Keys that are registered as KYC users and own a token account.
Users == {"alice", "bob"}

----------------------------------------------------------------------------
(* constants.rs *)

KYC_ORACLE_STATE_SEED == "kyc-oracle-state"

SECONDS_PER_DAY == 86400

\* Verification level mint_tokens requires.
MINT_REQUIRED_LEVEL == 2

\* Largest verification level update_kyc_status accepts.
MAX_VERIFICATION_LEVEL == 3

\* Country codes are sequences of characters.
SUPPORTED_COUNTRIES ==
    { <<"A","T">>, <<"B","E">>, <<"B","G">>, <<"H","R">>, <<"C","Y">>,
      <<"C","Z">>, <<"D","K">>, <<"E","E">>, <<"F","I">>, <<"F","R">>,
      <<"D","E">>, <<"G","R">>, <<"H","U">>, <<"I","E">>, <<"I","T">>,
      <<"L","V">>, <<"L","T">>, <<"L","U">>, <<"M","T">>, <<"N","L">>,
      <<"P","L">>, <<"P","T">>, <<"R","O">>, <<"S","K">>, <<"S","I">>,
      <<"E","S">>, <<"S","E">> }

is_country_supported(country_code) == country_code \in SUPPORTED_COUNTRIES

----------------------------------------------------------------------------
(* The record of the last instruction. *)

\* op: the instruction; caller: its signer; target: the account (user, token
\* account, authority) it is aimed at; aux: a second account it names, or
\* the arguments the claims about the instruction speak of;
\* err: "Ok" or the error it failed with.
Call(op, caller, target, aux, err) ==
    [op |-> op, caller |-> caller, target |-> target, aux |-> aux,
     err |-> err]

NoCall == Call("none", "none", "none", "none", "Ok")

\* Anchor persists an account at instruction exit only when its field is
\* declared `mut` (or `init`); otherwise the handler's writes to the
\* deserialized copy are dropped.
AccountsExit(is_mut, stored, in_memory) == IF is_mut THEN in_memory ELSE stored

----------------------------------------------------------------------------
(* Clock *)

ClockValues == (1 .. MaxSecs) \cup
               { ExpiryDays * SECONDS_PER_DAY + s : s \in 1 .. MaxSecs }

TickSteps == {1, ExpiryDays * SECONDS_PER_DAY}

Tick(d) ==
    /\ now + d \in ClockValues
    /\ now' = now + d
    /\ UNCHANGED <<kycVars, tokenVars, amlVars, last>>

----------------------------------------------------------------------------
(* i64 arithmetic.  A value is the sequence of its bytes, least significant *)
(* first, in two's complement (i64::to_le_bytes); w is the number of bytes. *)

\* The width of i64 in bytes, and the number of values of a byte.
I64_BYTES == 8
BYTE_VALUES == 256

RECURSIVE to_le_bytes(_, _)
\* The low w bytes of the integer n, least significant first; for n < 0
\* these are the bytes of its two's complement (\div rounds down).
to_le_bytes(n, w) ==
    IF w = 0 THEN <<>>
    ELSE <<n % BYTE_VALUES>> \o to_le_bytes(n \div BYTE_VALUES, w - 1)

\* x extended from its own width to w bytes (x is not negative).
extend_bytes(x, w) == [i \in 1 .. w |-> IF i <= Len(x) THEN x[i] ELSE 0]

RECURSIVE mul_bytes(_, _, _, _)
\* The low bytes, from byte i on, of x * k + carry, for an integer k >= 0.
mul_bytes(x, k, i, carry) ==
    IF i > Len(x) THEN <<>>
    ELSE LET p == x[i] * k + carry IN
         <<p % BYTE_VALUES>> \o mul_bytes(x, k, i + 1, p \div BYTE_VALUES)

RECURSIVE add_bytes(_, _, _, _)
\* The low bytes, from byte i on, of a + b + carry.
add_bytes(a, b, i, carry) ==
    IF i > Len(a) THEN <<>>
    ELSE LET t == a[i] + b[i] + carry IN
         <<t % BYTE_VALUES>> \o add_bytes(a, b, i + 1, t \div BYTE_VALUES)

\* i64::wrapping_mul by a small constant, i64::wrapping_add.
wrapping_mul(x, k) == mul_bytes(x, k, 1, 0)
wrapping_add(a, b) == add_bytes(a, b, 1, 0)

is_negative(x) == x[Len(x)] >= BYTE_VALUES \div 2
is_zero(x) == \A i \in 1 .. Len(x) : x[i] = 0

RECURSIVE unsigned_less(_, _, _)
\* a < b as unsigned numbers, comparing from byte i down.
unsigned_less(a, b, i) ==
    IF i = 0 THEN FALSE
    ELSE IF a[i] # b[i] THEN a[i] < b[i]
    ELSE unsigned_less(a, b, i - 1)

\* a < b as signed numbers of the same width.
signed_less(a, b) ==
    IF is_negative(a) # is_negative(b) THEN is_negative(a)
    ELSE unsigned_less(a, b, Len(a))

----------------------------------------------------------------------------
(* kyc_oracle.rs *)

KycStatus == {"Unverified", "Pending", "Verified", "Rejected", "Expired",
              "Suspended"}

\* Mutant: the PDA is taken as it is, created or not.
InitializeKycOracleAccounts_init_if_needed(authority) == "Ok"

\* #[derive(Accounts)] InitializeKycOracle: `init` of the singleton PDA.
InitializeKycOracleAccounts(authority) ==
    IF KYC_ORACLE_STATE_SEED \in DOMAIN kyc_oracle_state
    THEN "AccountAlreadyInUse" ELSE "Ok"

initialize_kyc_oracle(authority) ==
    LET err == InitializeKycOracleAccounts(authority) IN
    IF err # "Ok"
    THEN /\ last' = Call("initialize_kyc_oracle", authority, "none", "none", err)
         /\ UNCHANGED <<now, kycVars, tokenVars, amlVars>>
    ELSE /\ kyc_oracle_state' = (KYC_ORACLE_STATE_SEED :>
                [authority |-> authority,
                 user_count |-> 0,
                 verified_user_count |-> 0,
                 last_update_time |-> now])
         /\ last' = Call("initialize_kyc_oracle", authority, "none", "none", "Ok")
         /\ UNCHANGED <<now, kyc_users, tokenVars, amlVars>>

\* #[derive(Accounts)] RegisterKycUser: the oracle state is not `mut`.
RegisterKycUser_kyc_oracle_state_mut == FALSE

\* The accounts are loaded in the order of the fields, the `init` of
\* kyc_user among them; the constraint of kyc_oracle_state is tested after.
RegisterKycUserAccounts(authority, user) ==
    IF KYC_ORACLE_STATE_SEED \notin DOMAIN kyc_oracle_state
    THEN "AccountNotInitialized"
    ELSE IF user \in DOMAIN kyc_users
    THEN "AccountAlreadyInUse"
    ELSE IF kyc_oracle_state[KYC_ORACLE_STATE_SEED].authority # authority
    THEN "ConstraintRaw"
    ELSE "Ok"

\* Mutant: the whitelist is consulted before the length.
RegisterKycUserChecks_whitelist_first(country_code) ==
    IF ~is_country_supported(country_code) THEN "UnsupportedCountry"
    ELSE IF Len(country_code) # 2 THEN "InvalidCountryCode"
    ELSE "Ok"

\* The handler body's early returns.
RegisterKycUserChecks(country_code) ==
    IF Len(country_code) # 2 THEN "InvalidCountryCode"
    ELSE IF ~is_country_supported(country_code) THEN "UnsupportedCountry"
    ELSE "Ok"

\* Mutant: a registered user is Verified at the minting level at once.
new_kyc_user_verified(authority, user, blz, iban_hash, country_code, verification_provider, unix_timestamp) ==
    [authority |-> authority,
     user |-> user,
     status |-> "Verified",
     verification_level |-> MINT_REQUIRED_LEVEL,
     verification_time |-> unix_timestamp,
     expiry_time |-> 0,
     country_code |-> country_code,
     blz |-> blz,
     iban_hash |-> iban_hash,
     verification_provider |-> verification_provider]

\* The KycUser record register_kyc_user writes.
new_kyc_user(authority, user, blz, iban_hash, country_code, verification_provider, unix_timestamp) ==
    [authority |-> authority,
     user |-> user,
     status |-> "Pending",
     verification_level |-> 0,
     verification_time |-> unix_timestamp,
     expiry_time |-> 0,                      \* Not verified yet
     country_code |-> country_code,
     blz |-> blz,
     iban_hash |-> iban_hash,
     verification_provider |-> verification_provider]

register_kyc_user(authority, user, blz, iban_hash, country_code, verification_provider) ==
    LET acc == RegisterKycUserAccounts(authority, user)
        err == IF acc # "Ok" THEN acc ELSE RegisterKycUserChecks(country_code)
    IN
    IF err # "Ok"
    THEN /\ last' = Call("register_kyc_user", authority, user, country_code,
                         err)
         /\ UNCHANGED <<now, kycVars, tokenVars, amlVars>>
    ELSE LET st == kyc_oracle_state[KYC_ORACLE_STATE_SEED]
             st2 == [st EXCEPT !.user_count = @ + 1,
                               !.last_update_time = now]
         IN
         /\ kyc_users' = kyc_users @@ (user :>
                new_kyc_user(authority, user, blz, iban_hash, country_code,
                             verification_provider, now))
         /\ kyc_oracle_state' =
                [kyc_oracle_state EXCEPT ![KYC_ORACLE_STATE_SEED] =
                    AccountsExit(RegisterKycUser_kyc_oracle_state_mut, st, st2)]
         /\ last' = Call("register_kyc_user", authority, user, country_code,
                         "Ok")
         /\ UNCHANGED <<now, tokenVars, amlVars>>

\* Mutant: the two authority constraints are missing.
UpdateKycStatusAccounts_no_authority_check(authority, user) ==
    IF KYC_ORACLE_STATE_SEED \notin DOMAIN kyc_oracle_state
    THEN "AccountNotInitialized"
    ELSE IF user \notin DOMAIN kyc_users
    THEN "AccountNotInitialized"
    ELSE "Ok"

\* #[derive(Accounts)] UpdateKycStatus: both accounts are loaded before
\* the two constraints are tested.
UpdateKycStatusAccounts(authority, user) ==
    IF KYC_ORACLE_STATE_SEED \notin DOMAIN kyc_oracle_state
    THEN "AccountNotInitialized"
    ELSE IF user \notin DOMAIN kyc_users
    THEN "AccountNotInitialized"
    ELSE IF kyc_oracle_state[KYC_ORACLE_STATE_SEED].authority # authority
    THEN "ConstraintRaw"
    ELSE IF kyc_users[user].authority # authority
    THEN "ConstraintRaw"
    ELSE "Ok"

\* Mutant: the expiry_days of a Verified status are not validated.
UpdateKycStatusChecks_no_expiry_check(status, verification_level, expiry_days) ==
    IF verification_level > MAX_VERIFICATION_LEVEL
    THEN "InvalidVerificationLevel"
    ELSE "Ok"

\* The handler body's early returns.
UpdateKycStatusChecks(status, verification_level, expiry_days) ==
    IF verification_level > MAX_VERIFICATION_LEVEL
    THEN "InvalidVerificationLevel"
    ELSE IF status = "Verified" /\ expiry_days <= 0
    THEN "InvalidExpiryDate"
    ELSE "Ok"

\* Mutant: the count is incremented on every update to Verified, without
\* looking at the prior status.
verified_count_after_no_prior_check(count, was_verified, status) ==
    IF status = "Verified" THEN count + 1
    ELSE IF was_verified
    THEN (IF count >= 1 THEN count - 1 ELSE 0)
    ELSE count

\* The verified_user_count bookkeeping of update_kyc_status.
verified_count_after(count, was_verified, status) ==
    IF status = "Verified"
    THEN (IF ~was_verified THEN count + 1 ELSE count)
    ELSE IF was_verified
    THEN (IF count >= 1 THEN count - 1 ELSE 0)    \* saturating_sub(1)
    ELSE count

\* The expiry_time update_kyc_status writes for a Verified status.
expiry_time_after(unix_timestamp, expiry_days) ==
    unix_timestamp + (expiry_days * SECONDS_PER_DAY)

\* The same expression on i64 values: clock.unix_timestamp +
\* (expiry_days * 86400), both operations unchecked.  A build with overflow
\* checks aborts the instruction when one of them overflows; a build without
\* them wraps.  unix_timestamp >= 0 and expiry_days > 0.
expiry_time_i64(unix_timestamp, expiry_days, overflow_checks) ==
    LET exact == wrapping_add(
                    extend_bytes(unix_timestamp, ExactBytes),
                    wrapping_mul(extend_bytes(expiry_days, ExactBytes),
                                 SECONDS_PER_DAY))
        product == wrapping_mul(expiry_days, SECONDS_PER_DAY)
        wrapped == wrapping_add(unix_timestamp, product)
        overflows == extend_bytes(wrapped, ExactBytes) # exact
                        \/ is_negative(wrapped)
    IN IF overflows /\ overflow_checks
       THEN [err |-> "ProgramFailedToComplete", expiry_time |-> wrapped]
       ELSE [err |-> "Ok", expiry_time |-> wrapped]

\* update_kyc_status to Verified by the record's authority, on i64 values:
\* the argument check, then the two time fields it writes.
update_kyc_status_times(unix_timestamp, expiry_days, overflow_checks) ==
    LET rejected == is_negative(expiry_days) \/ is_zero(expiry_days)
        e == expiry_time_i64(unix_timestamp, expiry_days, overflow_checks)
        err == IF rejected THEN "InvalidExpiryDate" ELSE e.err
    IN
    /\ last' = Call("update_kyc_status_times", "issuer", "alice",
                    [unix_timestamp |-> unix_timestamp,
                     expiry_days |-> expiry_days,
                     verification_time |-> unix_timestamp,
                     expiry_time |-> e.expiry_time],
                    err)
    /\ UNCHANGED <<now, kycVars, tokenVars, amlVars>>

\* is_kyc_verified on i64 values: the status test, then the expiry test,
\* which applies only to an expiry_time > 0.
is_kyc_verified_i64(status, expiry_time, current_time) ==
    IF status # "Verified" THEN FALSE
    ELSE IF /\ signed_less(to_le_bytes(0, I64_BYTES), expiry_time)
            /\ signed_less(expiry_time, current_time)
    THEN FALSE
    ELSE TRUE

\* The eligibility test of mint_tokens on the record the last
\* update_kyc_status to Verified has written, at clock value current_time;
\* the clock does not run backwards.
is_kyc_verified_times(current_time) ==
    /\ last.op = "update_kyc_status_times" /\ last.err = "Ok"
    /\ ~signed_less(current_time, last.aux.unix_timestamp)
    /\ last' = Call("is_kyc_verified_times", "issuer", "alice",
                    [expiry_time |-> last.aux.expiry_time,
                     current_time |-> current_time],
                    IF is_kyc_verified_i64("Verified", last.aux.expiry_time,
                                           current_time)
                    THEN "Ok" ELSE "UserNotVerified")
    /\ UNCHANGED <<now, kycVars, tokenVars, amlVars>>

update_kyc_status(authority, user, status, verification_level, expiry_days) ==
    LET acc == UpdateKycStatusAccounts(authority, user)
        err == IF acc # "Ok" THEN acc
               ELSE UpdateKycStatusChecks(status, verification_level,
                                          expiry_days)
    IN
    IF err # "Ok"
    THEN /\ last' = Call("update_kyc_status", authority, user,
                         <<status, verification_level, expiry_days>>, err)
         /\ UNCHANGED <<now, kycVars, tokenVars, amlVars>>
    ELSE LET kyc_user == kyc_users[user]
             st == kyc_oracle_state[KYC_ORACLE_STATE_SEED]
             was_verified == kyc_user.status = "Verified"
         IN
         /\ kyc_users' = [kyc_users EXCEPT ![user] =
                [kyc_user EXCEPT
                    !.status = status,
                    !.verification_level = verification_level,
                    !.verification_time = now,
                    !.expiry_time =
                        IF status = "Verified"
                        THEN expiry_time_after(now, expiry_days)
                        ELSE @]]
         /\ kyc_oracle_state' =
                [kyc_oracle_state EXCEPT ![KYC_ORACLE_STATE_SEED] =
                    [st EXCEPT
                        !.verified_user_count =
                            verified_count_after(@, was_verified, status),
                        !.last_update_time = now]]
         /\ last' = Call("update_kyc_status", authority, user,
                         <<status, verification_level, expiry_days>>, "Ok")
         /\ UNCHANGED <<now, tokenVars, amlVars>>

\* Mutant: the expiry is never looked at.
is_kyc_verified_ignoring_expiry(kyc_user, current_time) ==
    kyc_user.status = "Verified"

\* Helper function to check if a user is KYC verified, at clock value
\* current_time.
is_kyc_verified(kyc_user, current_time) ==
    IF kyc_user.status # "Verified" THEN FALSE
    ELSE IF kyc_user.expiry_time > 0 /\ current_time > kyc_user.expiry_time
    THEN FALSE
    ELSE TRUE

\* Mutant: the verification-level test is missing.
MintTokensChecks_no_level_check(kyc_user, current_time) ==
    IF ~is_kyc_verified(kyc_user, current_time) THEN "UserNotVerified"
    ELSE "Ok"

\* The eligibility test at the head of mint_tokens: is_kyc_verified plus the
\* verification-level test.
MintTokensChecks(kyc_user, current_time) ==
    IF ~is_kyc_verified(kyc_user, current_time) THEN "UserNotVerified"
    ELSE IF kyc_user.verification_level < MINT_REQUIRED_LEVEL
    THEN "InsufficientVerificationLevel"
    ELSE "Ok"

mint_eligible(kyc_user, current_time) ==
    MintTokensChecks(kyc_user, current_time) = "Ok"

----------------------------------------------------------------------------
(* lib.rs: the token lifecycle.  The ledger (Token-2022) is external: a     *)
(* CPI either fails, and the instruction with it, or has the effect its    *)
(* interface states.                                                       *)

\* The mint keys (one EUR mint).
Mints == {"eur"}

\* Token accounts of the ledger and the wallet that owns each.
TokenAccounts == {"ata_alice", "ata_bob"}
TokenAccountOwner(a) == IF a = "ata_alice" THEN "alice" ELSE "bob"

ZERO_HASH == "0"

TotalSupply == balance["ata_alice"] + balance["ata_bob"]

\* #[derive(Accounts)] InitializeEuroMint: `init` of the MintInfo PDA.
InitializeEuroMintAccounts(issuer, mint) ==
    IF mint \in DOMAIN mint_info THEN "AccountAlreadyInUse" ELSE "Ok"

initialize_euro_mint(issuer, mint, freeze_authority, permanent_delegate, whitepaper_uri) ==
    LET err == InitializeEuroMintAccounts(issuer, mint) IN
    IF err # "Ok"
    THEN /\ last' = Call("initialize_euro_mint", issuer, mint, "none", err)
         /\ UNCHANGED <<now, kycVars, tokenVars, amlVars>>
    ELSE /\ mint_info' = mint_info @@ (mint :>
                [mint |-> mint,
                 issuer |-> issuer,
                 freeze_authority |-> freeze_authority,
                 permanent_delegate |-> permanent_delegate,
                 whitepaper_uri |-> whitepaper_uri,
                 is_active |-> TRUE,
                 creation_time |-> now,
                 reserve_merkle_root |-> ZERO_HASH,
                 reserve_ipfs_cid |-> "",
                 last_reserve_update |-> now])
         /\ last' = Call("initialize_euro_mint", issuer, mint, "none", "Ok")
         /\ UNCHANGED <<now, kycVars, balance, frozen, amlVars>>

\* #[derive(Accounts)] MintTokens.  The kyc_user account carries no
\* constraint: any KycUser account of the program is accepted.
MintTokensAccounts(issuer, mint, kyc_user_key, freeze_authority) ==
    IF mint \notin DOMAIN mint_info THEN "AccountNotInitialized"
    ELSE IF kyc_user_key \notin DOMAIN kyc_users THEN "AccountNotInitialized"
    ELSE IF mint_info[mint].issuer # issuer THEN "ConstraintRaw"
    ELSE IF ~mint_info[mint].is_active THEN "ConstraintRaw"
    ELSE IF mint_info[mint].mint # mint THEN "ConstraintRaw"
    ELSE IF freeze_authority # mint_info[mint].freeze_authority
    THEN "ConstraintRaw"
    ELSE "Ok"

\* token_2022::mint_to(cpi_ctx, amount)?
LedgerMintTo(bal, account, amount) == [bal EXCEPT ![account] = @ + amount]

\* token_2022::thaw_account(cpi_ctx)?
LedgerThaw(frz, account) == [frz EXCEPT ![account] = FALSE]

\* token_2022::transfer(cpi_ctx, amount)?
LedgerTransfer(bal, from, to, amount) ==
    LET debited == [bal EXCEPT ![from] = @ - amount]
    IN [debited EXCEPT ![to] = @ + amount]

\* The ledger refuses to credit a frozen account: mint_to answers
\* AccountFrozen when the destination is frozen.
LedgerMintToRejects(frz, account) == frz[account]

\* The ledger refuses to thaw an account that is not frozen, and to freeze
\* one that is: thaw_account and freeze_account answer InvalidState.
LedgerThawRejects(frz, account) == ~frz[account]
LedgerFreezeRejects(frz, account) == frz[account]

\* The signers the ledger accepts for a burn of an account of the mint:
\* the owner of the account, and the permanent delegate the mint was
\* created with.
LedgerBurnAuthorities(mint, account) ==
    {TokenAccountOwner(account), mint_info[mint].permanent_delegate}

\* Mutant: a failed instruction keeps the writes made before the failure.
InstructionExit_no_revert(err, before, in_flight) == in_flight

\* The host runs an instruction as one atomic unit: when it returns an
\* error, every write made before the error, by the program or by a CPI, is
\* discarded.
InstructionExit(err, before, in_flight) ==
    IF err = "Ok" THEN in_flight ELSE before

\* Mutant: the handler ends after mint_to, without the thaw CPI.
mint_tokens_without_thaw(issuer, mint, token_account, kyc_user_key, freeze_authority, amount, mint_to_ok) ==
    LET acc == MintTokensAccounts(issuer, mint, kyc_user_key, freeze_authority)
        chk == IF acc # "Ok" THEN acc
               ELSE MintTokensChecks(kyc_users[kyc_user_key], now)
        err == IF chk # "Ok" THEN chk
               ELSE IF LedgerMintToRejects(frozen, token_account)
               THEN "AccountFrozen"
               ELSE IF ~mint_to_ok THEN "LedgerMintToFailed"
               ELSE "Ok"
        bal1 == IF err = "Ok"
                THEN LedgerMintTo(balance, token_account, amount)
                ELSE balance
    IN
    /\ balance' = InstructionExit(err, balance, bal1)
    /\ frozen' = frozen
    /\ last' = Call("mint_tokens", issuer, token_account, kyc_user_key, err)
    /\ UNCHANGED <<now, kycVars, mint_info, amlVars>>

\* The two CPIs in the order of the handler: mint_to, then thaw_account on
\* the same account.  mint_to_ok: whether the ledger accepts a mint_to into
\* an account that is not frozen.  The thaw is reached only after the ledger
\* has credited the account, which it does only for an account that is not
\* frozen, and that is the account the ledger refuses to thaw.
mint_tokens(issuer, mint, token_account, kyc_user_key, freeze_authority, amount, mint_to_ok) ==
    LET acc == MintTokensAccounts(issuer, mint, kyc_user_key, freeze_authority)
        chk == IF acc # "Ok" THEN acc
               ELSE MintTokensChecks(kyc_users[kyc_user_key], now)
        minted == IF chk # "Ok" THEN chk
                  ELSE IF LedgerMintToRejects(frozen, token_account)
                  THEN "AccountFrozen"
                  ELSE IF ~mint_to_ok THEN "LedgerMintToFailed"
                  ELSE "Ok"
        bal1 == IF minted = "Ok"
                THEN LedgerMintTo(balance, token_account, amount)
                ELSE balance
        err == IF minted # "Ok" THEN minted
               ELSE IF LedgerThawRejects(frozen, token_account)
               THEN "InvalidState"
               ELSE "Ok"
        frz1 == IF err = "Ok" THEN LedgerThaw(frozen, token_account)
                ELSE frozen
    IN
    /\ balance' = InstructionExit(err, balance, bal1)
    /\ frozen' = InstructionExit(err, frozen, frz1)
    /\ last' = Call("mint_tokens", issuer, token_account, kyc_user_key, err)
    /\ UNCHANGED <<now, kycVars, mint_info, amlVars>>

\* The ledger is a program of its own.  The key mint_tokens hands to mint_to
\* as the authority is the issuer's, so the issuer is the mint authority of
\* the ledger's mint and can send the ledger a mint_to without this program;
\* the ledger credits an account that is not frozen.
ledger_mint_to(authority, mint, token_account, amount) ==
    /\ mint \in DOMAIN mint_info
    /\ authority = mint_info[mint].issuer
    /\ ~LedgerMintToRejects(frozen, token_account)
    /\ balance' = LedgerMintTo(balance, token_account, amount)
    /\ last' = Call("ledger_mint_to", authority, token_account, "none", "Ok")
    /\ UNCHANGED <<now, kycVars, mint_info, frozen, amlVars>>

\* Mutant: the permanent_delegate constraint is missing.
SeizeTokensAccounts_no_delegate_check(permanent_delegate, mint) ==
    IF mint \notin DOMAIN mint_info THEN "AccountNotInitialized"
    ELSE IF mint_info[mint].mint # mint THEN "ConstraintRaw"
    ELSE IF ~mint_info[mint].is_active THEN "ConstraintRaw"
    ELSE "Ok"

\* #[derive(Accounts)] SeizeTokens.
SeizeTokensAccounts(permanent_delegate, mint) ==
    IF mint \notin DOMAIN mint_info THEN "AccountNotInitialized"
    ELSE IF permanent_delegate # mint_info[mint].permanent_delegate
    THEN "ConstraintRaw"
    ELSE IF mint_info[mint].mint # mint THEN "ConstraintRaw"
    ELSE IF ~mint_info[mint].is_active THEN "ConstraintRaw"
    ELSE "Ok"

\* transfer_ok: whether the ledger accepts the transfer CPI; it never does
\* when one of the two accounts is frozen or the source holds less than
\* amount.
seize_tokens(permanent_delegate, mint, from_account, to_account, amount, transfer_ok) ==
    LET acc == SeizeTokensAccounts(permanent_delegate, mint)
        err == IF acc # "Ok" THEN acc
               ELSE IF frozen[from_account] \/ frozen[to_account]
               THEN "AccountFrozen"
               ELSE IF balance[from_account] < amount
               THEN "InsufficientFunds"
               ELSE IF ~transfer_ok THEN "LedgerTransferFailed"
               ELSE "Ok"
    IN
    IF err # "Ok"
    THEN /\ last' = Call("seize_tokens", permanent_delegate, from_account,
                         to_account, err)
         /\ UNCHANGED <<now, kycVars, tokenVars, amlVars>>
    ELSE /\ balance' = LedgerTransfer(balance, from_account, to_account,
                                      amount)
         /\ last' = Call("seize_tokens", permanent_delegate, from_account,
                         to_account, "Ok")
         /\ UNCHANGED <<now, kycVars, mint_info, frozen, amlVars>>

\* The two constraints of BurnTokens on the MintInfo account.
BurnTokensConstraints(info, mint) ==
    IF info.mint # mint THEN "ConstraintRaw"
    ELSE IF ~info.is_active THEN "ConstraintRaw"
    ELSE "Ok"

\* #[derive(Accounts)] BurnTokens: the owner is any signer.
BurnTokensAccounts(owner, mint) ==
    IF mint \notin DOMAIN mint_info THEN "AccountNotInitialized"
    ELSE BurnTokensConstraints(mint_info[mint], mint)

\* token_2022::burn(cpi_ctx, amount)?
LedgerBurn(bal, account, amount) == [bal EXCEPT ![account] = @ - amount]

\* burn_ok: whether the ledger accepts the burn CPI; it never does when the
\* account is frozen or holds less than amount, or when the signer is
\* neither the owner of the account nor the permanent delegate of the mint.
burn_tokens(owner, mint, token_account, amount, burn_ok) ==
    LET acc == BurnTokensAccounts(owner, mint)
        err == IF acc # "Ok" THEN acc
               ELSE IF frozen[token_account] THEN "AccountFrozen"
               ELSE IF balance[token_account] < amount
               THEN "InsufficientFunds"
               ELSE IF owner \notin LedgerBurnAuthorities(mint, token_account)
               THEN "OwnerMismatch"
               ELSE IF ~burn_ok THEN "LedgerBurnFailed"
               ELSE "Ok"
        bal1 == IF err = "Ok" THEN LedgerBurn(balance, token_account, amount)
                ELSE balance
    IN
    /\ balance' = InstructionExit(err, balance, bal1)
    /\ last' = Call("burn_tokens", owner, token_account, "none", err)
    /\ UNCHANGED <<now, kycVars, mint_info, frozen, amlVars>>

\* Mutant: the freeze_authority constraint is missing.
FreezeAccountAccounts_no_authority_check(freeze_authority, mint) ==
    IF mint \notin DOMAIN mint_info THEN "AccountNotInitialized"
    ELSE IF mint_info[mint].mint # mint THEN "ConstraintRaw"
    ELSE IF ~mint_info[mint].is_active THEN "ConstraintRaw"
    ELSE "Ok"

\* #[derive(Accounts)] FreezeAccount.
FreezeAccountAccounts(freeze_authority, mint) ==
    IF mint \notin DOMAIN mint_info THEN "AccountNotInitialized"
    ELSE IF freeze_authority # mint_info[mint].freeze_authority
    THEN "ConstraintRaw"
    ELSE IF mint_info[mint].mint # mint THEN "ConstraintRaw"
    ELSE IF ~mint_info[mint].is_active THEN "ConstraintRaw"
    ELSE "Ok"

\* token_2022::freeze_account(cpi_ctx)?
LedgerFreeze(frz, account) == [frz EXCEPT ![account] = TRUE]

\* freeze_ok: whether the ledger accepts the freeze CPI; it never does for
\* an account that is frozen already.
freeze_account(freeze_authority, mint, token_account, freeze_ok) ==
    LET acc == FreezeAccountAccounts(freeze_authority, mint)
        err == IF acc # "Ok" THEN acc
               ELSE IF LedgerFreezeRejects(frozen, token_account)
               THEN "InvalidState"
               ELSE IF ~freeze_ok THEN "LedgerFreezeFailed"
               ELSE "Ok"
        frz1 == IF err = "Ok" THEN LedgerFreeze(frozen, token_account)
                ELSE frozen
    IN
    /\ frozen' = InstructionExit(err, frozen, frz1)
    /\ last' = Call("freeze_account", freeze_authority, token_account, "none",
                    err)
    /\ UNCHANGED <<now, kycVars, mint_info, balance, amlVars>>

\* #[derive(Accounts)] ThawAccount.
ThawAccountAccounts(freeze_authority, mint) ==
    IF mint \notin DOMAIN mint_info THEN "AccountNotInitialized"
    ELSE IF freeze_authority # mint_info[mint].freeze_authority
    THEN "ConstraintRaw"
    ELSE IF mint_info[mint].mint # mint THEN "ConstraintRaw"
    ELSE IF ~mint_info[mint].is_active THEN "ConstraintRaw"
    ELSE "Ok"

\* thaw_ok: whether the ledger accepts the thaw CPI; it never does for an
\* account that is not frozen.
thaw_account(freeze_authority, mint, token_account, thaw_ok) ==
    LET acc == ThawAccountAccounts(freeze_authority, mint)
        err == IF acc # "Ok" THEN acc
               ELSE IF LedgerThawRejects(frozen, token_account)
               THEN "InvalidState"
               ELSE IF ~thaw_ok THEN "LedgerThawFailed"
               ELSE "Ok"
        frz1 == IF err = "Ok" THEN LedgerThaw(frozen, token_account)
                ELSE frozen
    IN
    /\ frozen' = InstructionExit(err, frozen, frz1)
    /\ last' = Call("thaw_account", freeze_authority, token_account, "none",
                    err)
    /\ UNCHANGED <<now, kycVars, mint_info, balance, amlVars>>

\* Mutant: the issuer constraint is missing.
UpdateReserveProofAccounts_no_issuer_check(issuer, mint) ==
    IF mint \notin DOMAIN mint_info THEN "AccountNotInitialized"
    ELSE IF ~mint_info[mint].is_active THEN "ConstraintRaw"
    ELSE "Ok"

\* #[derive(Accounts)] UpdateReserveProof.
UpdateReserveProofAccounts(issuer, mint) ==
    IF mint \notin DOMAIN mint_info THEN "AccountNotInitialized"
    ELSE IF issuer # mint_info[mint].issuer THEN "ConstraintRaw"
    ELSE IF ~mint_info[mint].is_active THEN "ConstraintRaw"
    ELSE "Ok"

\* Mutant: the update also hands the permanent delegate's role to the issuer.
reserve_proof_written_resetting_delegate(info, merkle_root, ipfs_cid, unix_timestamp) ==
    [info EXCEPT !.reserve_merkle_root = merkle_root,
                 !.reserve_ipfs_cid = ipfs_cid,
                 !.last_reserve_update = unix_timestamp,
                 !.permanent_delegate = info.issuer]

\* Mutant: a reserve update also switches the mint off.
reserve_proof_written_deactivating(info, merkle_root, ipfs_cid, unix_timestamp) ==
    [info EXCEPT !.reserve_merkle_root = merkle_root,
                 !.reserve_ipfs_cid = ipfs_cid,
                 !.last_reserve_update = unix_timestamp,
                 !.is_active = FALSE]

\* The three assignments of update_reserve_proof to the MintInfo record.
reserve_proof_written(info, merkle_root, ipfs_cid, unix_timestamp) ==
    [info EXCEPT !.reserve_merkle_root = merkle_root,
                 !.reserve_ipfs_cid = ipfs_cid,
                 !.last_reserve_update = unix_timestamp]

update_reserve_proof(issuer, mint, merkle_root, ipfs_cid) ==
    LET err == UpdateReserveProofAccounts(issuer, mint) IN
    IF err # "Ok"
    THEN /\ last' = Call("update_reserve_proof", issuer, mint, merkle_root,
                         err)
         /\ UNCHANGED <<now, kycVars, tokenVars, amlVars>>
    ELSE /\ mint_info' = [mint_info EXCEPT ![mint] =
                reserve_proof_written(@, merkle_root, ipfs_cid, now)]
         /\ last' = Call("update_reserve_proof", issuer, mint, merkle_root,
                         "Ok")
         /\ UNCHANGED <<now, kycVars, balance, frozen, amlVars>>

----------------------------------------------------------------------------
(* aml.rs *)

\* aml_powers
VIEW_TRANSACTIONS == 1
FREEZE_ACCOUNTS == 2
SEIZE_FUNDS == 4
MODIFY_BLACKLIST == 8

\* Bitwise AND of two u8 values.
RECURSIVE BitAnd(_, _)
BitAnd(a, b) ==
    IF a = 0 \/ b = 0 THEN 0
    ELSE (a % 2) * (b % 2) + 2 * BitAnd(a \div 2, b \div 2)

\* AmlAuthority::has_power
has_power(aml_authority, power_flag) ==
    BitAnd(aml_authority.powers, power_flag) # 0

\* Mutant: the PDA of the signer is taken as it is, created or not.
RegisterAmlAuthorityAccounts_init_if_needed(authority) == "Ok"

\* #[derive(Accounts)] RegisterAmlAuthority: `init` of the PDA of the signer.
RegisterAmlAuthorityAccounts(authority) ==
    IF authority \in DOMAIN aml_authorities THEN "AccountAlreadyInUse"
    ELSE "Ok"

register_aml_authority(authority, authority_id, powers) ==
    LET err == RegisterAmlAuthorityAccounts(authority) IN
    IF err # "Ok"
    THEN /\ last' = Call("register_aml_authority", authority, authority,
                         "none", err)
         /\ UNCHANGED <<now, kycVars, tokenVars, amlVars>>
    ELSE /\ aml_authorities' = aml_authorities @@ (authority :>
                [authority |-> authority,
                 authority_id |-> authority_id,
                 powers |-> powers,
                 is_active |-> TRUE,
                 creation_time |-> now,
                 last_action_time |-> now])
         /\ last' = Call("register_aml_authority", authority, authority,
                         "none", "Ok")
         /\ UNCHANGED <<now, kycVars, tokenVars, blacklist_entries>>

\* #[derive(Accounts)] CreateBlacklistEntry: the signer's own AmlAuthority
\* PDA, and `init` of the BlacklistEntry PDA of the user.
CreateBlacklistEntryAccounts(authority, user) ==
    IF authority \notin DOMAIN aml_authorities THEN "AccountNotInitialized"
    ELSE IF user \in DOMAIN blacklist_entries THEN "AccountAlreadyInUse"
    ELSE IF aml_authorities[authority].authority # authority
    THEN "ConstraintHasOne"
    ELSE "Ok"

\* Mutant: the MODIFY_BLACKLIST power is not required.
CreateBlacklistEntryChecks_no_power_check(aml_authority) ==
    IF ~aml_authority.is_active THEN "AmlAuthorityInactive" ELSE "Ok"

\* The handler's checks of the acting authority.
CreateBlacklistEntryChecks(aml_authority) ==
    IF ~aml_authority.is_active THEN "AmlAuthorityInactive"
    ELSE IF ~has_power(aml_authority, MODIFY_BLACKLIST)
    THEN "UnauthorizedAmlAuthority"
    ELSE "Ok"

create_blacklist_entry(authority, user, reason) ==
    LET acc == CreateBlacklistEntryAccounts(authority, user)
        err == IF acc # "Ok" THEN acc
               ELSE CreateBlacklistEntryChecks(aml_authorities[authority])
    IN
    IF err # "Ok"
    THEN /\ last' = Call("create_blacklist_entry", authority, user, "none",
                         err)
         /\ UNCHANGED <<now, kycVars, tokenVars, amlVars>>
    ELSE /\ blacklist_entries' = blacklist_entries @@ (user :>
                [user |-> user,
                 authority |-> aml_authorities[authority].authority,
                 reason |-> reason,
                 is_active |-> TRUE,
                 creation_time |-> now])
         /\ aml_authorities' = [aml_authorities EXCEPT
                ![authority].last_action_time = now]
         /\ last' = Call("create_blacklist_entry", authority, user, "none",
                         "Ok")
         /\ UNCHANGED <<now, kycVars, tokenVars>>

\* #[derive(Accounts)] DeactivateAmlAuthority: the signer named `issuer`
\* carries no constraint.
DeactivateAmlAuthorityAccounts(issuer, target) ==
    IF target \notin DOMAIN aml_authorities THEN "AccountNotInitialized"
    ELSE "Ok"

deactivate_aml_authority(issuer, target) ==
    LET err == DeactivateAmlAuthorityAccounts(issuer, target) IN
    IF err # "Ok"
    THEN /\ last' = Call("deactivate_aml_authority", issuer, target, "none",
                         err)
         /\ UNCHANGED <<now, kycVars, tokenVars, amlVars>>
    ELSE /\ aml_authorities' = [aml_authorities EXCEPT
                ![target].is_active = FALSE,
                ![target].last_action_time = now]
         /\ last' = Call("deactivate_aml_authority", issuer, target, "none",
                         "Ok")
         /\ UNCHANGED <<now, kycVars, tokenVars, blacklist_entries>>

\* Mutant: only the authority that created the entry may deactivate it.
DeactivateBlacklistEntryAccounts_creator_only(authority, user) ==
    IF authority \notin DOMAIN aml_authorities THEN "AccountNotInitialized"
    ELSE IF user \notin DOMAIN blacklist_entries THEN "AccountNotInitialized"
    ELSE IF aml_authorities[authority].authority # authority
    THEN "ConstraintHasOne"
    ELSE IF blacklist_entries[user].authority # authority
    THEN "ConstraintHasOne"
    ELSE "Ok"

\* #[derive(Accounts)] DeactivateBlacklistEntry.
DeactivateBlacklistEntryAccounts(authority, user) ==
    IF authority \notin DOMAIN aml_authorities THEN "AccountNotInitialized"
    ELSE IF user \notin DOMAIN blacklist_entries THEN "AccountNotInitialized"
    ELSE IF aml_authorities[authority].authority # authority
    THEN "ConstraintHasOne"
    ELSE "Ok"

\* The handler's checks of the acting authority.
DeactivateBlacklistEntryChecks(aml_authority) ==
    IF ~aml_authority.is_active THEN "AmlAuthorityInactive"
    ELSE IF ~has_power(aml_authority, MODIFY_BLACKLIST)
    THEN "UnauthorizedAmlAuthority"
    ELSE "Ok"

\* The handler borrows the authority immutably: only the entry is written.
deactivate_blacklist_entry(authority, user) ==
    LET acc == DeactivateBlacklistEntryAccounts(authority, user)
        err == IF acc # "Ok" THEN acc
               ELSE DeactivateBlacklistEntryChecks(aml_authorities[authority])
    IN
    IF err # "Ok"
    THEN /\ last' = Call("deactivate_blacklist_entry", authority, user,
                         "none", err)
         /\ UNCHANGED <<now, kycVars, tokenVars, amlVars>>
    ELSE /\ blacklist_entries' = [blacklist_entries EXCEPT
                ![user].is_active = FALSE]
         /\ last' = Call("deactivate_blacklist_entry", authority, user,
                         "none", "Ok")
         /\ UNCHANGED <<now, kycVars, tokenVars, aml_authorities>>

\* #[derive(Accounts)] UpdateAmlAuthorityPowers: the signer named `issuer`
\* carries no constraint.
UpdateAmlAuthorityPowersAccounts(issuer, target) ==
    IF target \notin DOMAIN aml_authorities THEN "AccountNotInitialized"
    ELSE "Ok"

update_aml_authority_powers(issuer, target, new_powers) ==
    LET err == UpdateAmlAuthorityPowersAccounts(issuer, target) IN
    IF err # "Ok"
    THEN /\ last' = Call("update_aml_authority_powers", issuer, target,
                         "none", err)
         /\ UNCHANGED <<now, kycVars, tokenVars, amlVars>>
    ELSE /\ aml_authorities' = [aml_authorities EXCEPT
                ![target].powers = new_powers,
                ![target].last_action_time = now]
         /\ last' = Call("update_aml_authority_powers", issuer, target,
                         "none", "Ok")
         /\ UNCHANGED <<now, kycVars, tokenVars, blacklist_entries>>

----------------------------------------------------------------------------
(* The reserve Merkle tree (merkle_info.rs; mint_utils.rs holds the same   *)
(* calculate_merkle_root and verify_merkle_proof).  A 32-byte value is a   *)
(* tuple: a one-element tuple for a value given from outside, and          *)
(* <<"hash", data>> for the hash of data.  The hash is taken as free of    *)
(* collisions: two hashes are equal exactly when their data are.  The 64   *)
(* bytes left || right of two 32-byte values are the pair <<left, right>>, *)
(* which determines both halves as the concatenation does.                 *)

\* hash::hash(data).to_bytes()
hash(data) == <<"hash", data>>

\* Mutant: the two children are hashed without their order.
hash_node_commutative(left, right) == <<"hash", {left, right}>>

hash_node(left, right) == hash(<<left, right>>)

\* [0; 32]
ZERO_BYTES == <<"0">>

\* Mutant: an unpaired last node is hashed with itself.
next_level_duplicating_last(leaves) ==
    [k \in 1 .. ((Len(leaves) + 1) \div 2) |->
        IF 2 * k <= Len(leaves)
        THEN hash_node(leaves[2 * k - 1], leaves[2 * k])
        ELSE hash_node(leaves[2 * k - 1], leaves[2 * k - 1])]

\* The loop over leaves.chunks(2): chunk k holds leaves 2k-1 and 2k, the
\* last chunk of an odd level holds one node.
next_level(leaves) ==
    [k \in 1 .. ((Len(leaves) + 1) \div 2) |->
        IF 2 * k <= Len(leaves)
        THEN hash_node(leaves[2 * k - 1], leaves[2 * k])
        ELSE leaves[2 * k - 1]]

RECURSIVE calculate_merkle_root_hashing_single(_)
\* Mutant: a single leaf is hashed.
calculate_merkle_root_hashing_single(leaves) ==
    IF Len(leaves) = 0 THEN ZERO_BYTES
    ELSE IF Len(leaves) = 1 THEN hash(leaves[1])
    ELSE calculate_merkle_root_hashing_single(next_level(leaves))

RECURSIVE calculate_merkle_root(_)
calculate_merkle_root(leaves) ==
    IF Len(leaves) = 0 THEN ZERO_BYTES
    ELSE IF Len(leaves) = 1 THEN leaves[1]
    ELSE calculate_merkle_root(next_level(leaves))

\* Mutant: index 0 puts the sibling on the left.
combined_sides_swapped(current, hash_k, index) ==
    IF index = 0 THEN hash_node(hash_k, current) ELSE hash_node(current, hash_k)

\* One pass of the loop of verify_merkle_proof.
combined(current, hash_k, index) ==
    IF index = 0 THEN hash_node(current, hash_k) ELSE hash_node(hash_k, current)

RECURSIVE proof_fold_backwards(_, _, _, _)
\* Mutant: the last pair of the proof is combined first.
proof_fold_backwards(proof, indexes, current, k) ==
    IF k > Len(proof) \/ k > Len(indexes) THEN current
    ELSE combined(proof_fold_backwards(proof, indexes, current, k + 1),
                  proof[k], indexes[k])

RECURSIVE proof_fold(_, _, _, _)
\* The loop over proof.iter().zip(indexes.iter()) from pair k on: zip ends
\* with the shorter of the two.
proof_fold(proof, indexes, current, k) ==
    IF k > Len(proof) \/ k > Len(indexes) THEN current
    ELSE proof_fold(proof, indexes, combined(current, proof[k], indexes[k]),
                    k + 1)

\* Mutant: the lengths are not compared.
verify_merkle_proof_no_length_check(proof, root, leaf, indexes) ==
    proof_fold(proof, indexes, leaf, 1) = root

verify_merkle_proof(proof, root, leaf, indexes) ==
    IF Len(proof) # Len(indexes) THEN FALSE
    ELSE proof_fold(proof, indexes, leaf, 1) = root

\* u64::to_le_bytes, i64::to_le_bytes: 8 bytes, two's complement.
U64_BYTES == 8

RECURSIVE without_high_zero_bytes(_)
without_high_zero_bytes(x) ==
    IF Len(x) = 0 \/ x[Len(x)] # 0 THEN x
    ELSE without_high_zero_bytes(SubSeq(x, 1, Len(x) - 1))

\* Mutant: the amount and the timestamp without their high zero bytes.
reserve_leaf_data_minimal_width(deposit_id, amount, timestamp) ==
    deposit_id \o without_high_zero_bytes(to_le_bytes(amount, U64_BYTES))
               \o without_high_zero_bytes(to_le_bytes(timestamp, I64_BYTES))

\* The bytes create_reserve_leaf collects in `data`; deposit_id is given
\* as its UTF-8 bytes.
reserve_leaf_data(deposit_id, amount, timestamp) ==
    deposit_id \o to_le_bytes(amount, U64_BYTES)
               \o to_le_bytes(timestamp, I64_BYTES)

create_reserve_leaf(deposit_id, amount, timestamp) ==
    hash(reserve_leaf_data(deposit_id, amount, timestamp))

----------------------------------------------------------------------------
(* Inputs the instructions are driven with. *)

\* The key that sets up the KYC oracle and the mint.
OracleInitCallers == {"issuer"}
\* The oracle authority and a user who is not the authority.
KycCallers == {"issuer", "alice"}
\* Country codes as the bytes of their UTF-8 text: a supported code, an
\* unsupported one, a one-byte code, and the two bytes of the one
\* character U+00E9.
CountryInputs == { <<"D","E">>, <<"U","S">>, <<"D">>, <<"0xC3","0xA9">> }
\* The codes and levels used where callers, not arguments, are varied.
KycCountryInputs == { <<"D","E">>, <<"U","S">> }
KycLevelInputs == {1, 2}
StatusInputs == {"Verified", "Suspended"}
LevelInputs == {1, 2, 4}
ExpiryDaysInputs == {-1, 0, ExpiryDays}
BlzInput == "10070000"
IbanHashInput == "iban-hash"
ProviderInput == "provider"

\* Token lifecycle: the three keys of the mint, and who calls.
WhitepaperInput == "https://example.org/whitepaper"
MintCallers == {"issuer", "alice"}
FreezeAuthorityInputs == {"freezer", "alice"}
DelegateInputs == {"delegate", "alice"}
SeizeCallers == {"delegate", "issuer"}
AmountInputs == {1}
\* The user the oracle authority registers while tokens are minted; bob owns
\* a token account and has no KYC record.
TokenKycUsers == {"alice"}
\* Who calls freeze_account / thaw_account, and who burns.
FreezeCallers == {"freezer", "issuer"}
BurnCallers == {"alice", "bob", "delegate"}
\* Reserve proofs handed to update_reserve_proof, and who calls it.
MerkleRootInputs == {"root-1", "root-2"}
IpfsCidInputs == {"cid-1"}
ReserveCallers == {"issuer", "freezer"}

\* AML: the keys that register as authorities, and who calls.
AmlSigners == {"freezer", "delegate"}
AmlCallers == {"freezer", "delegate"}
BlacklistTargets == {"alice"}
AmlAdminCallers == {"issuer", "freezer", "alice"}
PowersInputs == {MODIFY_BLACKLIST,
                 VIEW_TRANSACTIONS + FREEZE_ACCOUNTS + SEIZE_FUNDS}
AuthorityIdInput == "LEI-1"
ReasonInputs == {1}

\* A clock value and a positive expiry_days whose exact sum
\* unix_timestamp + expiry_days * 86400 is 2^64: 25216 seconds, and
\* 213503982334601 days.
WrapToZeroTimestamp == <<128, 98, 0, 0, 0, 0, 0, 0>>
WrapToZeroDays == <<137, 114, 6, 69, 46, 194, 0, 0>>

\* expiry_days values of the whole positive i64 range: every power of two,
\* the configured period, the largest value whose product with 86400 fits,
\* its successor, and i64::MAX; and two values that are not positive.
SingleBitBytes ==
    { [i \in 1 .. I64_BYTES |-> IF i = j THEN b ELSE 0] :
        j \in 1 .. I64_BYTES, b \in {1, 2, 4, 8, 16, 32, 64, 128} }

ExpiryDaysI64Inputs ==
    SingleBitBytes
        \cup { to_le_bytes(d, I64_BYTES) : d \in {0, 1, ExpiryDays} }
        \cup { <<68, 57, 131, 34, 23, 97, 0, 0>>,
               <<69, 57, 131, 34, 23, 97, 0, 0>>,
               <<255, 255, 255, 255, 255, 255, 255, 127>> }
        \cup { WrapToZeroDays }

UnixTimestampI64Inputs ==
    { to_le_bytes(t, I64_BYTES) : t \in ClockValues }
        \cup { WrapToZeroTimestamp }

\* Reserve tree: leaves are two outside values and the hash of the two, so
\* that a leaf may be equal to an inner node of another tree.
LeafValues == { <<"A">>, <<"B">>, hash_node(<<"A">>, <<"B">>) }
LeafSequences ==
    UNION { [1 .. n -> LeafValues] : n \in 0 .. MaxMerkleLeaves }
\* Proofs, roots, leaves and side indicators as a caller may send them.
HashInputs == LeafValues \cup {ZERO_BYTES}
ProofInputs == UNION { [1 .. n -> LeafValues] : n \in 0 .. MaxProofLen }
IndexValues == {0, 1, 2}
IndexesInputs == UNION { [1 .. n -> IndexValues] : n \in 0 .. MaxProofLen }
\* Deposits: ids as UTF-8 bytes, one a prefix of another and one ending in
\* a byte an amount starts with; amounts; timestamps, one before 1970.
DepositIdInputs == { <<>>, <<68>>, <<68, 1>>, <<68, 0>>, <<195, 169>> }
DepositAmountInputs == {0, 1, 256, 65536}
DepositTimestampInputs == {-1, 0, 1, 256}

Init ==
    /\ now = 1
    /\ kyc_oracle_state = <<>>
    /\ kyc_users = <<>>
    /\ mint_info = <<>>
    /\ balance = [a \in TokenAccounts |-> 0]
    /\ frozen = [a \in TokenAccounts |-> TRUE]
    /\ aml_authorities = <<>>
    /\ blacklist_entries = <<>>
    /\ last = NoCall

ClockTick == \E d \in TickSteps : Tick(d)

ClockTickSecond == Tick(1)

InitializeKycOracle == \E a \in OracleInitCallers : initialize_kyc_oracle(a)

RegisterKycUser ==
    \E a \in KycCallers, u \in Users, c \in KycCountryInputs :
        register_kyc_user(a, u, BlzInput, IbanHashInput, c, ProviderInput)

UpdateKycStatus ==
    \E a \in KycCallers, u \in Users, s \in StatusInputs,
       l \in KycLevelInputs :
        update_kyc_status(a, u, s, l, ExpiryDays)

\* The oracle authority registers and updates users with every kind of
\* argument, good and bad.
RegisterWithCountryCode ==
    \E u \in Users, c \in CountryInputs :
        register_kyc_user("issuer", u, BlzInput, IbanHashInput, c,
                          ProviderInput)

UpdateWithArguments ==
    \E u \in Users, s \in StatusInputs, l \in LevelInputs,
       d \in ExpiryDaysInputs :
        update_kyc_status("issuer", u, s, l, d)

\* The KYC oracle as the token lifecycle sees it: the authority registers
\* users and sets their status.
AuthorityRegistersUser ==
    \E u \in TokenKycUsers :
        register_kyc_user("issuer", u, BlzInput, IbanHashInput, <<"D","E">>,
                          ProviderInput)

AuthorityUpdatesStatus ==
    \E u \in TokenKycUsers, s \in StatusInputs, l \in {1, 2} :
        update_kyc_status("issuer", u, s, l, ExpiryDays)

InitializeEuroMint ==
    \E m \in Mints :
        initialize_euro_mint("issuer", m, "freezer", "delegate",
                             WhitepaperInput)

MintTokens ==
    \E c \in MintCallers, m \in Mints, t \in TokenAccounts,
       k \in TokenKycUsers, f \in FreezeAuthorityInputs, a \in AmountInputs,
       mint_to_ok \in BOOLEAN :
        mint_tokens(c, m, t, k, f, a, mint_to_ok)

\* The issuer mints at the ledger, without the program.
IssuerMintsAtLedger ==
    \E m \in Mints, t \in TokenAccounts, a \in AmountInputs :
        /\ TotalSupply + a <= MaxSupply
        /\ ledger_mint_to("issuer", m, t, a)

SeizeTokens ==
    \E c \in SeizeCallers, m \in Mints, from \in TokenAccounts,
       to \in TokenAccounts, a \in AmountInputs, transfer_ok \in BOOLEAN :
        seize_tokens(c, m, from, to, a, transfer_ok)

BurnTokens ==
    \E c \in BurnCallers, m \in Mints, t \in TokenAccounts,
       a \in AmountInputs, burn_ok \in BOOLEAN :
        burn_tokens(c, m, t, a, burn_ok)

FreezeAccount ==
    \E c \in FreezeCallers, m \in Mints, t \in TokenAccounts,
       freeze_ok \in BOOLEAN :
        freeze_account(c, m, t, freeze_ok)

ThawAccount ==
    \E c \in FreezeCallers, m \in Mints, t \in TokenAccounts,
       thaw_ok \in BOOLEAN :
        thaw_account(c, m, t, thaw_ok)

\* The freeze authority releases an account, and the ledger accepts.
FreezeAuthorityThaws ==
    \E m \in Mints, t \in TokenAccounts :
        thaw_account("freezer", m, t, TRUE)

UpdateReserveProof ==
    \E c \in ReserveCallers, m \in Mints, r \in MerkleRootInputs,
       i \in IpfsCidInputs :
        update_reserve_proof(c, m, r, i)

\* The oracle authority verifies the registered user at the level minting
\* requires.
AuthorityVerifiesUser ==
    \E u \in TokenKycUsers :
        update_kyc_status("issuer", u, "Verified", MINT_REQUIRED_LEVEL,
                          ExpiryDays)

\* One user, registered and updated with good and bad arguments by the
\* oracle authority.
RegistersAlice ==
    \E c \in CountryInputs :
        register_kyc_user("issuer", "alice", BlzInput, IbanHashInput, c,
                          ProviderInput)

\* Verified with a level and expiry_days that pass or fail the checks,
\* and Suspended.
UpdatesAliceInputs ==
    ({"Verified"} \X {MINT_REQUIRED_LEVEL, MAX_VERIFICATION_LEVEL + 1}
                  \X {0, ExpiryDays})
        \cup {<<"Suspended", MINT_REQUIRED_LEVEL, ExpiryDays>>}

UpdatesAlice ==
    \E i \in UpdatesAliceInputs :
        update_kyc_status("issuer", "alice", i[1], i[2], i[3])

\* One AML authority, with and without the power to modify the blacklist.
FreezerRegistersAsAmlAuthority ==
    \E p \in PowersInputs :
        register_aml_authority("freezer", AuthorityIdInput, p)

FreezerCreatesBlacklistEntry ==
    \E r \in ReasonInputs : create_blacklist_entry("freezer", "alice", r)

FreezerDeactivatesBlacklistEntry ==
    deactivate_blacklist_entry("freezer", "alice")

IssuerDeactivatesFreezer == deactivate_aml_authority("issuer", "freezer")

IssuerUpdatesFreezerPowers ==
    \E p \in PowersInputs :
        update_aml_authority_powers("issuer", "freezer", p)

UpdateKycStatusTimes ==
    \E t \in UnixTimestampI64Inputs, d \in ExpiryDaysI64Inputs,
       overflow_checks \in BOOLEAN :
        update_kyc_status_times(t, d, overflow_checks)

RegisterAmlAuthority ==
    \E a \in AmlSigners, p \in PowersInputs :
        register_aml_authority(a, AuthorityIdInput, p)

CreateBlacklistEntry ==
    \E a \in AmlCallers, u \in BlacklistTargets, r \in ReasonInputs :
        create_blacklist_entry(a, u, r)

DeactivateAmlAuthority ==
    \E c \in AmlAdminCallers, t \in AmlSigners :
        deactivate_aml_authority(c, t)

DeactivateBlacklistEntry ==
    \E a \in AmlCallers, u \in BlacklistTargets :
        deactivate_blacklist_entry(a, u)

UpdateAmlAuthorityPowers ==
    \E c \in AmlAdminCallers, t \in AmlSigners, p \in PowersInputs :
        update_aml_authority_powers(c, t, p)

\* The eligibility check of mint_tokens applied to the record of `user` at
\* the current clock value; its answer is recorded as the call's result.
check_mint_eligibility(user) ==
    /\ user \in DOMAIN kyc_users
    /\ last' = Call("check_mint_eligibility", "none", user, "none",
                    MintTokensChecks(kyc_users[user], now))
    /\ UNCHANGED <<now, kycVars, tokenVars, amlVars>>

CheckMintEligibility == \E u \in Users : check_mint_eligibility(u)

----------------------------------------------------------------------------
(* Specifications.  The three subsystems write disjoint records, so each   *)
(* is explored on its own; Spec is the whole program.                      *)

NextKyc ==
    \/ ClockTick
    \/ InitializeKycOracle
    \/ RegisterKycUser
    \/ UpdateKycStatus

SpecKyc == Init /\ [][NextKyc]_vars

\* The KYC oracle driven by its authority with good and bad arguments.
NextKycArguments ==
    \/ ClockTick
    \/ InitializeKycOracle
    \/ RegisterWithCountryCode
    \/ UpdateWithArguments

SpecKycArguments == Init /\ [][NextKycArguments]_vars

NextToken ==
    \/ ClockTick
    \/ InitializeKycOracle
    \/ AuthorityRegistersUser
    \/ AuthorityUpdatesStatus
    \/ InitializeEuroMint
    \/ MintTokens
    \/ SeizeTokens
    \/ FreezeAuthorityThaws

SpecToken == Init /\ [][NextToken]_vars

\* The token lifecycle with a recipient the oracle authority has verified.
NextLifecycle ==
    \/ ClockTickSecond
    \/ InitializeKycOracle
    \/ AuthorityRegistersUser
    \/ AuthorityVerifiesUser
    \/ InitializeEuroMint
    \/ MintTokens
    \/ IssuerMintsAtLedger
    \/ BurnTokens
    \/ FreezeAccount
    \/ ThawAccount
    \/ SeizeTokens
    \/ UpdateReserveProof

SpecLifecycle == Init /\ [][NextLifecycle]_vars

NextAml ==
    \/ ClockTickSecond
    \/ RegisterAmlAuthority
    \/ CreateBlacklistEntry
    \/ DeactivateAmlAuthority
    \/ DeactivateBlacklistEntry
    \/ UpdateAmlAuthorityPowers

SpecAml == Init /\ [][NextAml]_vars

\* The eligibility check on the records the oracle authority writes.
NextKycEligibility ==
    \/ ClockTick
    \/ InitializeKycOracle
    \/ AuthorityRegistersUser
    \/ AuthorityUpdatesStatus
    \/ CheckMintEligibility

SpecKycEligibility == Init /\ [][NextKycEligibility]_vars

\* Every instruction of the program on one deployment, at one clock value:
\* one oracle authority, one registered user, one AML authority.
NextProgram ==
    \/ InitializeKycOracle
    \/ RegistersAlice
    \/ UpdatesAlice
    \/ InitializeEuroMint
    \/ MintTokens
    \/ IssuerMintsAtLedger
    \/ BurnTokens
    \/ FreezeAccount
    \/ ThawAccount
    \/ SeizeTokens
    \/ UpdateReserveProof
    \/ FreezerRegistersAsAmlAuthority
    \/ FreezerCreatesBlacklistEntry
    \/ FreezerDeactivatesBlacklistEntry
    \/ IssuerDeactivatesFreezer
    \/ IssuerUpdatesFreezerPowers

SpecProgram == Init /\ [][NextProgram]_vars

\* The time fields update_kyc_status writes, over the i64 range.
\* Anyone may send the two initialisations, with keys of their choice.
AnyoneInitializesKycOracle ==
    \E a \in KycCallers : initialize_kyc_oracle(a)

AnyoneInitializesEuroMint ==
    \E i \in MintCallers, m \in Mints, f \in FreezeAuthorityInputs,
       d \in DelegateInputs :
        initialize_euro_mint(i, m, f, d, WhitepaperInput)

NextInitialize ==
    \/ ClockTickSecond
    \/ AnyoneInitializesKycOracle
    \/ AnyoneInitializesEuroMint
    \/ AuthorityRegistersUser
    \/ AuthorityVerifiesUser
    \/ UpdateReserveProof

SpecInitialize == Init /\ [][NextInitialize]_vars

\* The functions of merkle_info.rs: the initial state holds the inputs of
\* one call in `last`, and the step of the function puts the result there.
Input(op, caller, aux) == Call(op, caller, "none", aux, "Pending")

Answered(op) == last.op = op /\ last.err = "Ok"

CalculateMerkleRoot ==
    /\ last.op = "calculate_merkle_root" /\ last.err = "Pending"
    /\ last' = [last EXCEPT
          !.aux = [leaves |-> last.aux.leaves,
                   root |-> calculate_merkle_root(last.aux.leaves)],
          !.err = "Ok"]
    /\ UNCHANGED <<now, kycVars, tokenVars, amlVars>>

VerifyMerkleProof ==
    /\ last.op = "verify_merkle_proof" /\ last.err = "Pending"
    /\ last' = [last EXCEPT
          !.aux = [proof |-> last.aux.proof, root |-> last.aux.root,
                   leaf |-> last.aux.leaf, indexes |-> last.aux.indexes,
                   leaves |-> last.aux.leaves,
                   position |-> last.aux.position,
                   result |-> verify_merkle_proof(last.aux.proof,
                                 last.aux.root, last.aux.leaf,
                                 last.aux.indexes)],
          !.err = "Ok"]
    /\ UNCHANGED <<now, kycVars, tokenVars, amlVars>>

CreateReserveLeaf ==
    /\ last.op = "create_reserve_leaf" /\ last.err = "Pending"
    /\ last' = [last EXCEPT
          !.aux = [deposit_id |-> last.aux.deposit_id,
                   amount |-> last.aux.amount,
                   timestamp |-> last.aux.timestamp,
                   data |-> reserve_leaf_data(last.aux.deposit_id,
                               last.aux.amount, last.aux.timestamp),
                   leaf |-> create_reserve_leaf(last.aux.deposit_id,
                               last.aux.amount, last.aux.timestamp)],
          !.err = "Ok"]
    /\ UNCHANGED <<now, kycVars, tokenVars, amlVars>>

RECURSIVE merkle_path(_, _)
\* The path of position i of the tree over leaves: per level where the
\* node has a sibling, the sibling and the side indicator (0 when the node
\* is the left one); a level where the node is the unpaired last one adds
\* nothing.
merkle_path(leaves, i) ==
    IF Len(leaves) <= 1 THEN <<>>
    ELSE LET up == merkle_path(next_level(leaves), (i + 1) \div 2) IN
         IF i % 2 = 0 THEN <<[hash |-> leaves[i - 1], index |-> 1]>> \o up
         ELSE IF i < Len(leaves)
         THEN <<[hash |-> leaves[i + 1], index |-> 0]>> \o up
         ELSE up

\* The call in which a holder of the leaves has position i verified
\* against the root of the leaves.
DerivedProofInput(leaves, i) ==
    LET path == merkle_path(leaves, i) IN
    Input("verify_merkle_proof", "prover",
          [proof |-> [k \in 1 .. Len(path) |-> path[k].hash],
           root |-> calculate_merkle_root(leaves),
           leaf |-> leaves[i],
           indexes |-> [k \in 1 .. Len(path) |-> path[k].index],
           leaves |-> leaves,
           position |-> i])

\* The call of anyone with a proof, a root, a leaf and side indicators.
ProofInput(proof, root, leaf, indexes) ==
    Input("verify_merkle_proof", "anyone",
          [proof |-> proof, root |-> root, leaf |-> leaf,
           indexes |-> indexes, leaves |-> <<>>, position |-> 0])

\* The call of anyone who hands in, as the leaf, the node above the first
\* two of three leaves, with the third leaf as its sibling.
ThreeLeafSequences == { leaves \in LeafSequences : Len(leaves) = 3 }

InnerNodeInput(leaves) ==
    ProofInput(<<leaves[3]>>, calculate_merkle_root(leaves),
               hash_node(leaves[1], leaves[2]), <<0>>)

InitMerkle ==
    /\ now = 1
    /\ kyc_oracle_state = <<>>
    /\ kyc_users = <<>>
    /\ mint_info = <<>>
    /\ balance = [a \in TokenAccounts |-> 0]
    /\ frozen = [a \in TokenAccounts |-> TRUE]
    /\ aml_authorities = <<>>
    /\ blacklist_entries = <<>>
    /\ \/ \E leaves \in LeafSequences :
             last = Input("calculate_merkle_root", "anyone",
                          [leaves |-> leaves])
       \/ \E proof \in ProofInputs, root \in HashInputs, leaf \in HashInputs,
             indexes \in IndexesInputs :
             last = ProofInput(proof, root, leaf, indexes)
       \/ \E leaves \in LeafSequences \ {<<>>} :
             \E i \in 1 .. Len(leaves) : last = DerivedProofInput(leaves, i)
       \/ \E leaves \in ThreeLeafSequences :
             last = InnerNodeInput(leaves)
       \/ \E deposit_id \in DepositIdInputs, amount \in DepositAmountInputs,
             timestamp \in DepositTimestampInputs :
             last = Input("create_reserve_leaf", "anyone",
                          [deposit_id |-> deposit_id, amount |-> amount,
                           timestamp |-> timestamp])

NextMerkle ==
    \/ CalculateMerkleRoot
    \/ VerifyMerkleProof
    \/ CreateReserveLeaf

SpecMerkle == InitMerkle /\ [][NextMerkle]_vars

IsKycVerifiedTimes ==
    \E t \in UnixTimestampI64Inputs : is_kyc_verified_times(t)

NextExpiryTime ==
    \/ UpdateKycStatusTimes
    \/ IsKycVerifiedTimes

SpecExpiryTime == Init /\ [][NextExpiryTime]_vars

Next ==
    \/ NextKyc
    \/ NextKycArguments
    \/ NextProgram
    \/ NextToken
    \/ NextLifecycle
    \/ NextAml
    \/ NextInitialize

Spec == Init /\ [][Next]_vars

----------------------------------------------------------------------------
(* Properties.  A step "is" instruction op when it leaves the clock alone   *)
(* and records op as the last call: every instruction writes `last`, and   *)
(* only the clock tick leaves it.                                          *)

IsStep(op) == last'.op = op /\ now' = now

VerifiedUsers == {u \in DOMAIN kyc_users : kyc_users[u].status = "Verified"}

\* C1: after any sequence of register_kyc_user and update_kyc_status calls,
\* successful or failed, verified_user_count equals the number of KycUser
\* records whose status is Verified.
C1_VerifiedCountMatchesRecords ==
    KYC_ORACLE_STATE_SEED \in DOMAIN kyc_oracle_state =>
        kyc_oracle_state[KYC_ORACLE_STATE_SEED].verified_user_count
            = Cardinality(VerifiedUsers)

\* C1 witness: one user is Verified and counted, another was Verified (its
\* expiry_time was set) and has just been updated to a non-Verified status.
C1_Witness ==
    /\ KYC_ORACLE_STATE_SEED \in DOMAIN kyc_oracle_state
    /\ kyc_oracle_state[KYC_ORACLE_STATE_SEED].verified_user_count = 1
    /\ last.op = "update_kyc_status" /\ last.err = "Ok"
    /\ last.target \in DOMAIN kyc_users
    /\ kyc_users[last.target].status = "Suspended"
    /\ kyc_users[last.target].expiry_time > 0
    /\ Cardinality(VerifiedUsers) = 1

\* The conditions under which the claim C2 says a mint must not go through,
\* for a mint by `caller` with the KycUser record of `k`.
MintMustFail(caller, k) ==
    LET mi == mint_info["eur"]
        r == kyc_users[k]
    IN \/ ~mi.is_active
       \/ caller # mi.issuer
       \/ r.status # "Verified"
       \/ now >= r.expiry_time
       \/ r.verification_level < 2

\* The same conditions without the instant now = expiry_time.
MintGateClosed(caller, k) ==
    LET mi == mint_info["eur"]
        r == kyc_users[k]
    IN \/ ~mi.is_active
       \/ caller # mi.issuer
       \/ r.status # "Verified"
       \/ now > r.expiry_time
       \/ r.verification_level < 2

\* The errors with which the program itself turns a mint down, before it
\* sends anything to the ledger.
MintGateErrors ==
    {"AccountNotInitialized", "ConstraintRaw", "UserNotVerified",
     "InsufficientVerificationLevel"}

\* C2: mint_tokens fails closed: it fails and changes no balance when the
\* mint is missing or inactive, the caller is not the issuer, or the
\* supplied KYC record is not Verified, has expired (the clock has reached
\* its expiry_time) or has a verification_level below 2; and except at the
\* instant now = expiry_time it is the program that turns the mint down,
\* before any call to the ledger.
C2_MintFailsClosed ==
    [][ IsStep("mint_tokens") =>
          /\ "eur" \notin DOMAIN mint_info =>
                (last'.err \in MintGateErrors /\ balance' = balance)
          /\ ( /\ "eur" \in DOMAIN mint_info
               /\ last'.aux \in DOMAIN kyc_users ) =>
                /\ MintMustFail(last'.caller, last'.aux) =>
                      (last'.err # "Ok" /\ balance' = balance)
                /\ MintGateClosed(last'.caller, last'.aux) =>
                      last'.err \in MintGateErrors ]_vars

\* C2 witness: the issuer's mint to an account the ledger would credit (it
\* is not frozen) has just been turned down because the Verified, unexpired
\* record supplied is of level 1.
C2_Witness ==
    /\ last.op = "mint_tokens" /\ last.caller = "issuer"
    /\ last.err = "InsufficientVerificationLevel"
    /\ ~frozen[last.target]
    /\ kyc_users[last.aux].status = "Verified"
    /\ kyc_users[last.aux].verification_level = 1
    /\ now < kyc_users[last.aux].expiry_time
    /\ balance[last.target] = 0

C4_EligibleIffVerifiedLevelUnexpired ==
    last.op = "check_mint_eligibility" =>
        LET r == kyc_users[last.target] IN
        (last.err = "Ok") <=>
            ( /\ r.status = "Verified"
              /\ r.verification_level >= 2
              /\ now < r.expiry_time )

\* C5: a KycUser record with expiry_time = 0 is never eligible, whatever its
\* status, its level and the clock: the eligibility check answers no for
\* every record an update_kyc_status has written with expiry_time = 0.
C5_ZeroExpiryNeverEligible ==
    ( /\ last.op = "is_kyc_verified_times"
      /\ is_zero(last.aux.expiry_time) )
    => last.err # "Ok"

\* C6: a user registered with country "DE" and then set to Verified with
\* level 2 and expiry_days = 365 at time t is eligible at level 2 at every
\* clock value from t up to (not including) t + 365 days, and is not eligible
\* at any clock value past t + 365 days, with no further write to the record.
C6_VerifiedUntilExpiry ==
    \A u \in DOMAIN kyc_users :
        LET r == kyc_users[u]
            expiry == r.verification_time + ExpiryDays * 86400
        IN ( /\ r.country_code = <<"D","E">>
             /\ r.status = "Verified"
             /\ r.verification_level = 2 )
           => /\ (r.verification_time <= now /\ now < expiry)
                    => mint_eligible(r, now)
              /\ now > expiry => ~mint_eligible(r, now)

\* C6 witness: the last instruction was the update that verified the user;
\* since then only the clock has moved, past the expiry, and the user is no
\* longer eligible.
C6_Witness ==
    /\ last = Call("update_kyc_status", "issuer", "alice",
                   <<"Verified", 2, ExpiryDays>>, "Ok")
    /\ "alice" \in DOMAIN kyc_users
    /\ kyc_users["alice"].country_code = <<"D","E">>
    /\ kyc_users["alice"].status = "Verified"
    /\ kyc_users["alice"].verification_level = 2
    /\ now > kyc_users["alice"].verification_time + ExpiryDays * 86400
    /\ ~mint_eligible(kyc_users["alice"], now)

\* Whether the AmlAuthority record holds the MODIFY_BLACKLIST bit (bit 3).
HoldsModifyBlacklist(aml_authority) == (aml_authority.powers \div 8) % 2 = 1

\* C7: create_blacklist_entry and deactivate_blacklist_entry by an
\* AmlAuthority that is inactive or lacks the MODIFY_BLACKLIST bit fail and
\* leave every BlacklistEntry unchanged, whatever its other power bits.
C7_BlacklistNeedsActiveAuthorityWithPower ==
    [][ ( /\ \/ IsStep("create_blacklist_entry")
             \/ IsStep("deactivate_blacklist_entry")
          /\ last'.caller \in DOMAIN aml_authorities
          /\ \/ ~aml_authorities[last'.caller].is_active
             \/ ~HoldsModifyBlacklist(aml_authorities[last'.caller]) )
        => /\ last'.err # "Ok"
           /\ blacklist_entries' = blacklist_entries ]_vars

\* C7 witness: an authority that holds MODIFY_BLACKLIST and has been
\* deactivated has just been refused the deactivation of an entry, which is
\* still active.
C7_Witness ==
    /\ last.op = "deactivate_blacklist_entry"
    /\ last.err = "AmlAuthorityInactive"
    /\ HoldsModifyBlacklist(aml_authorities[last.caller])
    /\ ~aml_authorities[last.caller].is_active
    /\ last.target \in DOMAIN blacklist_entries
    /\ blacklist_entries[last.target].is_active

\* The keys that hold the issuer / regulator role.
IssuerRole == {"issuer"} \cup {mint_info[m].issuer : m \in DOMAIN mint_info}

\* C8: deactivate_aml_authority and update_aml_authority_powers called by a
\* signer that is not the issuer / regulator are rejected and leave the
\* target's is_active and powers unchanged.
C8_AmlAdminRestrictedToIssuer ==
    [][ ( /\ \/ IsStep("deactivate_aml_authority")
             \/ IsStep("update_aml_authority_powers")
          /\ last'.caller \notin IssuerRole
          /\ last'.target \in DOMAIN aml_authorities )
        => /\ last'.err # "Ok"
           /\ aml_authorities'[last'.target].is_active
                = aml_authorities[last'.target].is_active
           /\ aml_authorities'[last'.target].powers
                = aml_authorities[last'.target].powers ]_vars

\* C9: every successful create_blacklist_entry and every successful
\* deactivate_blacklist_entry sets the acting AmlAuthority's
\* last_action_time to the current clock value.
C9_BlacklistActionStampsAuthority ==
    [][ ( /\ \/ IsStep("create_blacklist_entry")
             \/ IsStep("deactivate_blacklist_entry")
          /\ last'.err = "Ok" )
        => aml_authorities'[last'.caller].last_action_time = now ]_vars

\* C10: seize_tokens moves tokens only when the caller is the
\* permanent_delegate key MintInfo has recorded since the mint was created
\* (no step changes it) and the mint is active; a seize by any other caller
\* is rejected and changes no balance.
C10_SeizeOnlyByPermanentDelegate ==
    [][ /\ \A m \in DOMAIN mint_info :
              /\ m \in DOMAIN mint_info'
              /\ mint_info'[m].permanent_delegate
                    = mint_info[m].permanent_delegate
        /\ IsStep("seize_tokens") =>
              \/ /\ "eur" \in DOMAIN mint_info
                 /\ last'.caller = mint_info["eur"].permanent_delegate
                 /\ mint_info["eur"].is_active
              \/ /\ last'.err # "Ok"
                 /\ balance' = balance ]_vars

\* C10 witness: the permanent delegate has just seized tokens, which are now
\* on the account they were moved to.
C10_Witness ==
    /\ last.op = "seize_tokens" /\ last.err = "Ok"
    /\ "eur" \in DOMAIN mint_info
    /\ last.caller = mint_info["eur"].permanent_delegate
    /\ last.target # last.aux
    /\ balance[last.aux] >= 1

\* C11: freeze_account and thaw_account change an account's frozen state
\* only when the caller is the freeze_authority recorded in MintInfo and the
\* mint is active; in every other case the call is rejected and the frozen
\* state of every account is unchanged.
C11_FreezeThawOnlyByFreezeAuthority ==
    [][ (IsStep("freeze_account") \/ IsStep("thaw_account")) =>
            \/ /\ "eur" \in DOMAIN mint_info
               /\ last'.caller = mint_info["eur"].freeze_authority
               /\ mint_info["eur"].is_active
            \/ /\ last'.err # "Ok"
               /\ frozen' = frozen ]_vars

\* C11 witness: the freeze authority has just frozen an account that a
\* thaw had released before.
C11_Witness ==
    /\ last.op = "freeze_account" /\ last.err = "Ok"
    /\ "eur" \in DOMAIN mint_info
    /\ last.caller = mint_info["eur"].freeze_authority
    /\ frozen[last.target]
    /\ \E a \in TokenAccounts : ~frozen[a]

\* The records of the program and the ledger's balances and frozen flags.
Records == <<kycVars, tokenVars, amlVars>>

\* C12: an instruction that fails, on a precondition or on a ledger call it
\* delegates to, leaves every record, balance and frozen flag as it was; in
\* particular a mint whose mint_to the ledger could accept (the account is
\* not frozen) and whose thaw the ledger refuses fails as a whole and leaves
\* the balance unchanged.
C12_FailedInstructionChangesNothing ==
    [][ now' = now =>
          /\ last'.err # "Ok" => UNCHANGED Records
          /\ (IsStep("mint_tokens") /\ ~frozen[last'.target]) =>
                (last'.err # "Ok" /\ balance' = balance) ]_vars

\* C12 witness: a mint has just failed at its thaw step, after the ledger
\* had accepted the mint_to into an account that holds tokens, and the
\* balances and the records written before are as they were.
C12_Witness ==
    /\ last.op = "mint_tokens" /\ last.err = "InvalidState"
    /\ ~frozen[last.target]
    /\ balance[last.target] = 1
    /\ TotalSupply = 1
    /\ \E u \in DOMAIN blacklist_entries : ~blacklist_entries[u].is_active

\* C13: a mint_tokens that passes the program's own checks (issuer, active
\* mint, freeze authority, eligible record) and that the ledger does not
\* turn down for a reason of its own credits the destination account with
\* amount and leaves it thawed, whatever its frozen state was before; in
\* particular the mint to a default-frozen account goes through.
C13_MintCreditsAndThawsWhateverFrozen ==
    [][ ( /\ IsStep("mint_tokens")
          /\ last'.err \in {"Ok", "AccountFrozen"} )
        => /\ last'.err = "Ok"
           /\ \E a \in AmountInputs :
                balance' = LedgerMintTo(balance, last'.target, a)
           /\ ~frozen'[last'.target] ]_vars

\* C14: the mint identity and the issuer, freeze_authority and
\* permanent_delegate keys of a MintInfo record are the ones written by
\* initialize_euro_mint: no step removes the record or changes any of them.
C14_MintKeysFixedAtCreation ==
    [][ \A m \in DOMAIN mint_info :
            /\ m \in DOMAIN mint_info'
            /\ mint_info'[m].mint = mint_info[m].mint
            /\ mint_info'[m].issuer = mint_info[m].issuer
            /\ mint_info'[m].freeze_authority = mint_info[m].freeze_authority
            /\ mint_info'[m].permanent_delegate
                  = mint_info[m].permanent_delegate ]_vars

\* C14 witness: after a reserve update and a seizure, the record still
\* holds the keys it was created with.
C14_Witness ==
    /\ "eur" \in DOMAIN mint_info
    /\ mint_info["eur"].reserve_merkle_root # ZERO_HASH
    /\ last.op = "seize_tokens" /\ last.err = "Ok"
    /\ mint_info["eur"].mint = "eur"
    /\ mint_info["eur"].issuer = "issuer"
    /\ mint_info["eur"].freeze_authority = "freezer"
    /\ mint_info["eur"].permanent_delegate = "delegate"

\* C15: update_reserve_proof succeeds only for the issuer recorded in
\* MintInfo; a successful call writes the given root and CID as they are,
\* sets last_reserve_update to the clock value, and changes no other field
\* of MintInfo, no KYC or AML record, no balance and no frozen flag; a
\* rejected call changes nothing.
C15_ReserveUpdateByIssuerWritesThreeFields ==
    [][ IsStep("update_reserve_proof") =>
          IF last'.err = "Ok"
          THEN LET m == last'.target IN
               /\ m \in DOMAIN mint_info
               /\ last'.caller = mint_info[m].issuer
               /\ mint_info'[m].reserve_merkle_root = last'.aux
               /\ mint_info'[m].reserve_ipfs_cid \in IpfsCidInputs
               /\ mint_info'[m].last_reserve_update = now
               /\ mint_info' = [mint_info EXCEPT ![m] =
                    [@ EXCEPT
                       !.reserve_merkle_root = mint_info'[m].reserve_merkle_root,
                       !.reserve_ipfs_cid = mint_info'[m].reserve_ipfs_cid,
                       !.last_reserve_update = now]]
               /\ UNCHANGED <<kycVars, amlVars, balance, frozen>>
          ELSE UNCHANGED Records ]_vars

\* C15 witness: the issuer has just replaced an earlier reserve proof, at a
\* later clock value than the mint's creation.
C15_Witness ==
    /\ last.op = "update_reserve_proof" /\ last.err = "Ok"
    /\ "eur" \in DOMAIN mint_info
    /\ last.caller = mint_info["eur"].issuer
    /\ mint_info["eur"].reserve_merkle_root = "root-2"
    /\ mint_info["eur"].last_reserve_update > mint_info["eur"].creation_time
    /\ TotalSupply > 0

\* C16: register_kyc_user answers InvalidCountryCode to a country_code whose
\* length (in bytes) is not 2, before it looks at the whitelist, and
\* UnsupportedCountry to a code of length 2 that is not one of the 27
\* whitelisted ones; either way no KycUser record is created and the oracle
\* state is unchanged.
C16_RegisterRejectsBadCountryCode ==
    [][ ( /\ IsStep("register_kyc_user")
          /\ RegisterKycUserAccounts(last'.caller, last'.target) = "Ok" )
        => LET c == last'.aux IN
           /\ Cardinality(SUPPORTED_COUNTRIES) = 27
           /\ Len(c) # 2 => last'.err = "InvalidCountryCode"
           /\ (Len(c) = 2 /\ c \notin SUPPORTED_COUNTRIES)
                 => last'.err = "UnsupportedCountry"
           /\ last'.err # "Ok" => UNCHANGED kycVars ]_vars

\* C16 witness: a registration with a two-byte code outside the whitelist has
\* just been turned down, while another user is registered.
C16_Witness ==
    /\ last.op = "register_kyc_user" /\ last.err = "UnsupportedCountry"
    /\ last.target \notin DOMAIN kyc_users
    /\ kyc_users # <<>>

\* C17: when the oracle exists, its persisted user_count is the number of
\* KycUser records: each successful register_kyc_user adds one to it.
C17_UserCountMatchesRecords ==
    KYC_ORACLE_STATE_SEED \in DOMAIN kyc_oracle_state =>
        kyc_oracle_state[KYC_ORACLE_STATE_SEED].user_count
            = Cardinality(DOMAIN kyc_users)

\* C18: a record enters the collection only by register_kyc_user, as
\* Pending with level 0 and expiry_time 0, and changes only by
\* update_kyc_status; as long as it has not been set to Verified it fails
\* the mint's eligibility check at every clock value.
C18_FreshUserNotEligibleUntilVerified ==
    [][ \A u \in DOMAIN kyc_users' :
          /\ u \notin DOMAIN kyc_users =>
                /\ IsStep("register_kyc_user")
                /\ kyc_users'[u].status = "Pending"
                /\ kyc_users'[u].verification_level = 0
                /\ kyc_users'[u].expiry_time = 0
          /\ (u \in DOMAIN kyc_users /\ kyc_users'[u] # kyc_users[u]) =>
                IsStep("update_kyc_status")
          /\ kyc_users'[u].status # "Verified" =>
                \A t \in ClockValues : ~mint_eligible(kyc_users'[u], t) ]_vars

\* C18 witness: a user registered more than the expiry period ago is still
\* Pending and still not eligible.
C18_Witness ==
    /\ "alice" \in DOMAIN kyc_users
    /\ kyc_users["alice"].status = "Pending"
    /\ kyc_users["alice"].expiry_time = 0
    /\ now > kyc_users["alice"].verification_time + ExpiryDays * SECONDS_PER_DAY
    /\ ~mint_eligible(kyc_users["alice"], now)

\* C19: update_kyc_status answers InvalidVerificationLevel to a
\* verification_level above 3 and InvalidExpiryDate to a new status Verified
\* with expiry_days <= 0; a rejected update leaves the KycUser records and
\* the oracle state (verified_user_count, last_update_time) unchanged.
C19_UpdateRejectsBadLevelAndExpiry ==
    [][ ( /\ IsStep("update_kyc_status")
          /\ UpdateKycStatusAccounts(last'.caller, last'.target) = "Ok" )
        => LET status == last'.aux[1]
               verification_level == last'.aux[2]
               expiry_days == last'.aux[3]
           IN
           /\ verification_level > 3 =>
                 last'.err = "InvalidVerificationLevel"
           /\ (verification_level <= 3 /\ status = "Verified"
                 /\ expiry_days <= 0) =>
                 last'.err = "InvalidExpiryDate"
           /\ last'.err # "Ok" => UNCHANGED kycVars ]_vars

\* C19 witness: an update to Verified with a non-positive expiry_days has
\* just been turned down, and the user's earlier verification stands.
C19_Witness ==
    /\ last.op = "update_kyc_status" /\ last.err = "InvalidExpiryDate"
    /\ last.aux[3] < 0
    /\ last.target \in DOMAIN kyc_users
    /\ kyc_users[last.target].status = "Verified"
    /\ now > kyc_users[last.target].verification_time

\* C20: after a successful update_kyc_status to Verified with an expiry_days
\* > 0 anywhere in the i64 range, verification_time is the clock value,
\* expiry_time is clock value + expiry_days * 86400 without wrap-around, and
\* so expiry_time is strictly later than verification_time; where the
\* bounded integers can express the sum, it is the one the records carry.
C20_ExpiryIsNowPlusDaysWithoutWrap ==
    (last.op = "update_kyc_status_times" /\ last.err = "Ok") =>
        LET a == last.aux IN
        /\ a.verification_time = a.unix_timestamp
        /\ extend_bytes(a.expiry_time, ExactBytes)
              = wrapping_add(
                    extend_bytes(a.unix_timestamp, ExactBytes),
                    wrapping_mul(extend_bytes(a.expiry_days, ExactBytes),
                                 86400))
        /\ signed_less(a.verification_time, a.expiry_time)
        /\ a.expiry_days = to_le_bytes(ExpiryDays, 8) =>
              \A t \in ClockValues :
                 a.unix_timestamp = to_le_bytes(t, 8) =>
                    a.expiry_time
                        = to_le_bytes(expiry_time_after(t, ExpiryDays), 8)

\* C21: a KycUser record changes only in an update_kyc_status by the
\* authority that registered it; an update by any other caller, the
\* described user included, is rejected and leaves the records and the
\* oracle counters unchanged; no record is ever removed.
C21_RecordMutatedOnlyByItsAuthority ==
    [][ /\ \A u \in DOMAIN kyc_users :
              /\ u \in DOMAIN kyc_users'
              /\ kyc_users'[u] # kyc_users[u] =>
                    /\ IsStep("update_kyc_status")
                    /\ last'.target = u
                    /\ last'.caller = kyc_users[u].authority
        /\ ( /\ IsStep("update_kyc_status")
             /\ last'.target \in DOMAIN kyc_users
             /\ last'.caller # kyc_users[last'.target].authority )
           => /\ last'.err # "Ok"
              /\ UNCHANGED kycVars ]_vars

\* C21 witness: the user a Verified record describes has just tried to
\* update it and was turned down.
C21_Witness ==
    /\ last.op = "update_kyc_status" /\ last.err = "ConstraintRaw"
    /\ last.caller = last.target
    /\ last.target \in DOMAIN kyc_users
    /\ kyc_users[last.target].authority # last.caller
    /\ kyc_users[last.target].status = "Verified"

\* The errors with which the ledger turns a burn down.
LedgerBurnErrors ==
    {"AccountFrozen", "InsufficientFunds", "OwnerMismatch", "LedgerBurnFailed"}

\* C22: burn_tokens asks for an active mint and for the signature of the
\* owner of the burned account, and for nothing else: on an active mint it
\* fails only when the ledger turns the burn down, never for the caller's
\* KYC state; a burn that goes through is by the owner of the account on an
\* active mint and takes amount off its balance; without a MintInfo, or
\* with one that is not active, the burn is rejected.
C22_BurnNeedsActiveMintAndOwnerOnly ==
    [][ IsStep("burn_tokens") =>
          LET active == "eur" \in DOMAIN mint_info /\ mint_info["eur"].is_active
          IN
          /\ active => last'.err \in {"Ok"} \cup LedgerBurnErrors
          /\ ~active => (last'.err # "Ok" /\ balance' = balance)
          /\ "eur" \in DOMAIN mint_info =>
                BurnTokensConstraints(
                    [mint_info["eur"] EXCEPT !.is_active = FALSE], "eur")
                  # "Ok"
          /\ last'.err = "Ok" =>
                /\ last'.caller = TokenAccountOwner(last'.target)
                /\ \E a \in AmountInputs :
                      balance' = LedgerBurn(balance, last'.target, a) ]_vars

\* C23: initialize_kyc_oracle succeeds at most once and
\* initialize_euro_mint at most once per mint: a call that finds the
\* KycOracleState, or the MintInfo of its mint, already there fails and
\* leaves it as it is, whoever sends it; neither record ever disappears.
C23_InitializeOnlyOnce ==
    [][ /\ ( /\ IsStep("initialize_kyc_oracle")
             /\ KYC_ORACLE_STATE_SEED \in DOMAIN kyc_oracle_state )
           => /\ last'.err # "Ok"
              /\ kyc_oracle_state' = kyc_oracle_state
        /\ ( /\ IsStep("initialize_euro_mint")
             /\ last'.target \in DOMAIN mint_info )
           => /\ last'.err # "Ok"
              /\ mint_info' = mint_info
        /\ DOMAIN kyc_oracle_state \subseteq DOMAIN kyc_oracle_state'
        /\ DOMAIN mint_info \subseteq DOMAIN mint_info' ]_vars

\* C23 witness: with both records in place, someone other than the
\* oracle's authority has sent initialize_kyc_oracle again and failed.
C23_Witness ==
    /\ last.op = "initialize_kyc_oracle"
    /\ last.err = "AccountAlreadyInUse"
    /\ KYC_ORACLE_STATE_SEED \in DOMAIN kyc_oracle_state
    /\ kyc_oracle_state[KYC_ORACLE_STATE_SEED].authority # last.caller
    /\ "eur" \in DOMAIN mint_info
    /\ mint_info["eur"].last_reserve_update > mint_info["eur"].creation_time

\* C24: once a user's BlacklistEntry has been deactivated, a
\* create_blacklist_entry for the same user by an active authority that
\* holds MODIFY_BLACKLIST succeeds and leaves the user with an active entry.
C24_DeactivatedUserCanBeBlacklistedAgain ==
    [][ ( /\ IsStep("create_blacklist_entry")
          /\ last'.target \in DOMAIN blacklist_entries
          /\ ~blacklist_entries[last'.target].is_active
          /\ last'.caller \in DOMAIN aml_authorities
          /\ aml_authorities[last'.caller].is_active
          /\ HoldsModifyBlacklist(aml_authorities[last'.caller]) )
        => /\ last'.err = "Ok"
           /\ blacklist_entries'[last'.target].is_active ]_vars

\* C25: calculate_merkle_root of no leaves is the 32 zero bytes, and of
\* one leaf x is x itself, not a hash of x.
C25_RootOfNoneIsZeroAndOfOneIsTheLeaf ==
    Answered("calculate_merkle_root") =>
        /\ Len(last.aux.leaves) = 0 => last.aux.root = ZERO_BYTES
        /\ Len(last.aux.leaves) = 1 =>
              /\ last.aux.root = last.aux.leaves[1]
              /\ last.aux.root # hash(last.aux.leaves[1])

\* C25 witness: the root of the one leaf hash_node(A, B) was computed.
C25_Witness ==
    /\ Answered("calculate_merkle_root")
    /\ last.aux.leaves = <<hash_node(<<"A">>, <<"B">>)>>
    /\ last.aux.root = hash_node(<<"A">>, <<"B">>)

\* The level above an odd level, written out: the pairs hashed left to
\* right, then the last node as it is.
PairsThenLast(leaves) == [k \in 1 .. ((Len(leaves) + 1) \div 2) |-> IF k = (Len(leaves) + 1) \div 2 THEN leaves[Len(leaves)] ELSE hash(<<leaves[2 * k - 1], leaves[2 * k]>>)]

\* C26: for an odd number of leaves above one, the root is the root of the
\* level made of the hashes H(left || right) of the adjacent pairs, left to
\* right, followed by the last leaf unchanged; the root of [A, B, C] is
\* H(H(A, B), C), and of five leaves H(H(H(A, B), H(C, D)), E).
C26_OddLevelPromotesLastLeafUnchanged ==
    ( /\ Answered("calculate_merkle_root")
      /\ Len(last.aux.leaves) > 1
      /\ Len(last.aux.leaves) % 2 = 1 ) =>
        LET L == last.aux.leaves IN
        /\ last.aux.root = calculate_merkle_root(PairsThenLast(L))
        /\ Len(L) = 3 =>
              last.aux.root = hash(<<hash(<<L[1], L[2]>>), L[3]>>)
        /\ Len(L) = 5 =>
              last.aux.root =
                  hash(<<hash(<<hash(<<L[1], L[2]>>), hash(<<L[3], L[4]>>)>>),
                         L[5]>>)

\* C26 witness: the root of [A, B, hash_node(A, B)] was computed.
C26_Witness ==
    /\ Answered("calculate_merkle_root")
    /\ last.aux.leaves = << <<"A">>, <<"B">>, hash_node(<<"A">>, <<"B">>) >>
    /\ last.aux.root =
          hash_node(hash_node(<<"A">>, <<"B">>), hash_node(<<"A">>, <<"B">>))

\* C27: for every non-empty leaf sequence and every position in it, the
\* siblings and side indicators read off the tree over the leaves, leaving
\* out the levels where the node is the unpaired last one, verify the leaf
\* at that position against the root of the leaves.
C27_DerivedProofVerifies ==
    ( Answered("verify_merkle_proof") /\ last.caller = "prover" ) =>
        /\ last.aux.root = calculate_merkle_root(last.aux.leaves)
        /\ last.aux.leaf = last.aux.leaves[last.aux.position]
        /\ Len(last.aux.proof) = Len(last.aux.indexes)
        /\ last.aux.result = TRUE

\* C27 witness: the last of five leaves, unpaired on the first two levels,
\* was verified with a proof of one sibling.
C27_Witness ==
    /\ Answered("verify_merkle_proof") /\ last.caller = "prover"
    /\ Len(last.aux.leaves) = 5 /\ last.aux.position = 5
    /\ Len(last.aux.proof) = 1 /\ last.aux.indexes = <<1>>
    /\ last.aux.result = TRUE

\* C28: verify_merkle_proof answers false whenever the proof and the side
\* indicators differ in length, whatever the root and the leaf, also when
\* the leaf is the root.
C28_LengthMismatchIsFalse ==
    ( /\ Answered("verify_merkle_proof")
      /\ Len(last.aux.proof) # Len(last.aux.indexes) ) =>
        last.aux.result = FALSE

\* C28 witness: an empty proof with one side indicator was turned down for
\* a leaf equal to the root.
C28_Witness ==
    /\ Answered("verify_merkle_proof")
    /\ last.aux.proof = <<>> /\ Len(last.aux.indexes) = 1
    /\ last.aux.leaf = last.aux.root
    /\ last.aux.result = FALSE

\* The sequence leaves read in the order p.
Reordered(leaves, p) == [i \in 1 .. Len(leaves) |-> leaves[p[i]]]

\* C29: the root is a function of the leaf sequence, and for more than one
\* leaf every reordering that is a different sequence has a different root.
C29_RootIsOrderSensitive ==
    Answered("calculate_merkle_root") =>
        LET L == last.aux.leaves IN
        /\ last.aux.root = calculate_merkle_root(L)
        /\ Len(L) > 1 =>
              \A p \in Permutations(1 .. Len(L)) :
                  Reordered(L, p) # L =>
                      calculate_merkle_root(Reordered(L, p)) # last.aux.root

\* C29 witness: the root of [A, B, A], which has two other orders, was
\* computed.
C29_Witness ==
    /\ Answered("calculate_merkle_root")
    /\ last.aux.leaves = << <<"A">>, <<"B">>, <<"A">> >>
    /\ last.aux.root = hash_node(hash_node(<<"A">>, <<"B">>), <<"A">>)

RECURSIVE le_unsigned(_, _)
\* The number whose little-endian bytes, from byte i on, are x.
le_unsigned(x, i) ==
    IF i > Len(x) THEN 0 ELSE x[i] + BYTE_VALUES * le_unsigned(x, i + 1)

\* The number whose two's complement little-endian bytes are x.
le_signed(x) ==
    IF x[Len(x)] < BYTE_VALUES \div 2 THEN le_unsigned(x, 1)
    ELSE -(1 + le_unsigned([i \in 1 .. Len(x) |-> BYTE_VALUES - 1 - x[i]], 1))

\* C30: create_reserve_leaf is the hash of the bytes of deposit_id, then
\* the 8 little-endian bytes of amount, then the 8 little-endian bytes of
\* timestamp; deposits that differ in deposit_id, amount or timestamp are
\* hashed from different bytes.
C30_LeafHashesIdAmountTimestamp ==
    Answered("create_reserve_leaf") =>
        LET id == last.aux.deposit_id
            data == last.aux.data
            n == Len(id)
        IN
        /\ last.aux.leaf = hash(data)
        /\ Len(data) = n + 16
        /\ SubSeq(data, 1, n) = id
        /\ le_unsigned(SubSeq(data, n + 1, n + 8), 1) = last.aux.amount
        /\ le_signed(SubSeq(data, n + 9, n + 16)) = last.aux.timestamp
        /\ \A id2 \in DepositIdInputs, a2 \in DepositAmountInputs,
              t2 \in DepositTimestampInputs :
              <<id2, a2, t2>> # <<id, last.aux.amount, last.aux.timestamp>>
              => /\ reserve_leaf_data(id2, a2, t2) # data
                 /\ create_reserve_leaf(id2, a2, t2) # last.aux.leaf

\* C30 witness: the leaf of the deposit with id byte 68, amount 256 and a
\* timestamp before 1970 was computed.
C30_Witness ==
    /\ Answered("create_reserve_leaf")
    /\ last.aux.deposit_id = <<68>>
    /\ last.aux.amount = 256 /\ last.aux.timestamp = -1
    /\ last.aux.data = <<68, 0, 1, 0, 0, 0, 0, 0, 0,
                         255, 255, 255, 255, 255, 255, 255, 255>>

RECURSIVE CurrentAfter(_, _, _, _)
\* current after the first n steps, as the claim words it: the leaf, then
\* per step H(current || sibling) for side 0 and H(sibling || current) for
\* side 1.
CurrentAfter(proof, indexes, leaf, n) ==
    IF n = 0 THEN leaf
    ELSE LET current == CurrentAfter(proof, indexes, leaf, n - 1) IN
         IF indexes[n] = 0 THEN hash(<<current, proof[n]>>)
         ELSE hash(<<proof[n], current>>)

\* C31: with a proof and side indicators of one length, indicators 0 or 1,
\* verify_merkle_proof answers true exactly when the value folded from the
\* leaf, step by step in order, is the root; with an empty proof exactly
\* when the leaf is the root.
C31_VerifyFoldsLeafInOrder ==
    ( /\ Answered("verify_merkle_proof")
      /\ Len(last.aux.proof) = Len(last.aux.indexes)
      /\ \A k \in 1 .. Len(last.aux.indexes) : last.aux.indexes[k] \in {0, 1} )
    => /\ last.aux.result =
             ( CurrentAfter(last.aux.proof, last.aux.indexes, last.aux.leaf,
                            Len(last.aux.proof)) = last.aux.root )
       /\ Len(last.aux.proof) = 0 =>
             last.aux.result = (last.aux.leaf = last.aux.root)

\* C31 witness: a proof of two steps with different siblings, sides 0 then
\* 1, was accepted.
C31_Witness ==
    /\ Answered("verify_merkle_proof")
    /\ Len(last.aux.proof) = 2 /\ last.aux.indexes = <<0, 1>>
    /\ last.aux.proof[1] # last.aux.proof[2]
    /\ last.aux.result = TRUE

\* C32: when verify_merkle_proof accepts a value against the root of a
\* leaf sequence, the value is one of the leaves of that sequence.
C32_OnlyLeavesAreAccepted ==
    ( Answered("verify_merkle_proof") /\ last.aux.result = TRUE ) =>
        \A leaves \in LeafSequences :
            calculate_merkle_root(leaves) = last.aux.root =>
                \E i \in 1 .. Len(leaves) : leaves[i] = last.aux.leaf

\* The instructions whose accounts carry the constraint mint_info.is_active.
GuardedByIsActive == {"mint_tokens", "burn_tokens", "freeze_account", "thaw_account", "seize_tokens", "update_reserve_proof"}

\* C33: after every step each MintInfo that exists is active, and a
\* MintInfo that existed before is still there: no instruction switches a
\* mint off, so the is_active guard of mint, burn, freeze, thaw, seize and
\* reserve update is met whenever the MintInfo exists.
C33_MintIsAlwaysActive ==
    [][ /\ \A m \in DOMAIN mint_info : m \in DOMAIN mint_info'
        /\ \A m \in DOMAIN mint_info' : mint_info'[m].is_active
        /\ ( /\ last'.op \in GuardedByIsActive /\ now' = now
             /\ "eur" \in DOMAIN mint_info )
           => mint_info["eur"].is_active ]_vars

\* C33 witness: tokens were minted, some were burned and the reserve proof
\* was replaced, and the mint is active.
C33_Witness ==
    /\ "eur" \in DOMAIN mint_info
    /\ mint_info["eur"].is_active
    /\ mint_info["eur"].reserve_merkle_root = "root-1"
    /\ last.op = "burn_tokens" /\ last.err = "Ok"

\* C34: an AmlAuthority that has been deactivated stays inactive and in
\* place through every later step: register_aml_authority for its signer
\* fails and changes nothing, update_aml_authority_powers leaves is_active
\* alone, and it is refused every creation and deactivation of a blacklist
\* entry.
C34_DeactivatedAuthorityStaysInactive ==
    [][ /\ \A a \in DOMAIN aml_authorities :
              /\ a \in DOMAIN aml_authorities'
              /\ ~aml_authorities[a].is_active =>
                    ~aml_authorities'[a].is_active
        /\ ( /\ IsStep("register_aml_authority")
             /\ last'.caller \in DOMAIN aml_authorities )
           => /\ last'.err # "Ok"
              /\ aml_authorities' = aml_authorities
        /\ ( /\ \/ IsStep("create_blacklist_entry")
                \/ IsStep("deactivate_blacklist_entry")
             /\ last'.caller \in DOMAIN aml_authorities
             /\ ~aml_authorities[last'.caller].is_active )
           => /\ last'.err # "Ok"
              /\ blacklist_entries' = blacklist_entries ]_vars

\* C34 witness: a deactivated authority, whose powers include
\* MODIFY_BLACKLIST, has just tried to register again and was turned down.
C34_Witness ==
    /\ last.op = "register_aml_authority"
    /\ last.err = "AccountAlreadyInUse"
    /\ last.caller \in DOMAIN aml_authorities
    /\ ~aml_authorities[last.caller].is_active
    /\ HoldsModifyBlacklist(aml_authorities[last.caller])
    /\ aml_authorities[last.caller].last_action_time
          > aml_authorities[last.caller].creation_time

\* The active entries that name user u.
ActiveEntriesOf(u) == { k \in DOMAIN blacklist_entries : blacklist_entries[k].user = u /\ blacklist_entries[k].is_active }

\* C35: every user has at most one active BlacklistEntry; a
\* deactivate_blacklist_entry by any registered authority that is active and
\* holds MODIFY_BLACKLIST, the entry's creator or not, succeeds on an
\* existing entry, sets is_active to false and leaves the entry in place
\* with its user, authority, reason and creation_time.
C35_OneActiveEntryAnyAuthorityDeactivates ==
    [][ /\ \A u \in BlacklistTargets : Cardinality(ActiveEntriesOf(u))' <= 1
        /\ ( /\ IsStep("deactivate_blacklist_entry")
             /\ last'.caller \in DOMAIN aml_authorities
             /\ aml_authorities[last'.caller].is_active
             /\ HoldsModifyBlacklist(aml_authorities[last'.caller])
             /\ last'.target \in DOMAIN blacklist_entries )
           => /\ last'.err = "Ok"
              /\ blacklist_entries' = [blacklist_entries EXCEPT
                    ![last'.target].is_active = FALSE] ]_vars

\* C35 witness: an entry has just been deactivated by an authority other
\* than the one that created it.
C35_Witness ==
    /\ last.op = "deactivate_blacklist_entry" /\ last.err = "Ok"
    /\ last.target \in DOMAIN blacklist_entries
    /\ blacklist_entries[last.target].authority # last.caller
    /\ ~blacklist_entries[last.target].is_active
    /\ blacklist_entries[last.target].user = last.target

====
